---- MODULE Spec2Model ----
(***************************************************************************)
(* A model of the uitaco view runtime (src/src/lib.rs), the element query  *)
(* operations (src/src/tags.rs) and the component handles                  *)
(* (src/src/component.rs).                                                 *)
(*                                                                         *)
(* Actors: the caller threads of Threads, and the rendering thread R that  *)
(* View::new_from_builder spawns.  R owns the web view; the web view calls *)
(* the invoke handler on R, from inside a web view call (eval, inject_css):*)
(* the dispatch loop makes no other call into the web view.                *)
(***************************************************************************)
EXTENDS Naturals, Sequences, FiniteSets

\* ------------------------------------------------------------------ bounds
MaxCmds == 2          \* commands sent on the command channel (a query sends one)
MaxComponents == 1    \* components View::add_component may register
MaxCallbacks == 1     \* callbacks View::add_callback may register
MaxNodes == 3         \* nodes of the markup handed to Class::try_from_html
MaxSets == 3          \* calls of set_callback that reach View::add_callback
MaxChars == 3         \* characters of a payload interpolated into a script
MaxItems == 2         \* items of the iterator given to image_loader::load_all

ROOT_COMPONENT_ID == 0

Threads == {"t1", "t2"}           \* caller threads
R == "R"                          \* the rendering thread
Free == "free"                    \* a lock held by nobody
None == "none"                    \* Option::None
Comps == {"c1", "c2"}             \* component objects, each behind its own RwLock
QueryKinds == {"attribute", "dom_html"}
StrValues == {"v"}                \* attribute values the surface may report
ComponentKinds == {"plain"}        \* RootComponent has no constructor: it is never nested

ReplyIds == {1}                    \* request ids that hand-written scripts name
BoolReplyIds == {0}                \* request ids a user script may answer with a boolean
CbIds == {0}                      \* callback ids that hand-written scripts name

\* ------------------------------------------------------- component classes
\* The class of <div class="uitacoComponent" id="card"><p id="label"></p>
\* <h4></h4><span id="note"></span></div>: its nodes in document order, the
\* class node first.  A node without an id attribute has id None.
ClassName == "card"
Template ==
    << [tag |-> "div", id |-> "card"], [tag |-> "p", id |-> "label"],
       [tag |-> "h4", id |-> None], [tag |-> "span", id |-> "note"] >>
\* Class::try_one_from_node: one placeholder per node with an id, and the
\* class node's own.
PlaceholderIds ==
    ({Template[i].id : i \in DOMAIN Template} \ {None}) \cup {ClassName}
Names == {"lbl42", "label"}       \* names Placeholder::set_name is called with
ChildElems ==                     \* elements handed to add_child
    {[tag |-> "p", id |-> "label"], [tag |-> "img", id |-> "pic"]}
ChildIds == {"card", "label", "pic"}   \* identifiers remove_child is asked for
Containers == {"root", "base"}   \* a RootComponent and a plain ComponentBase
HandleIds == {0, 1}               \* ids of the handles remove_component is given

\* --------------------------------------------------------------- messages
\* InCmd, the tagged message of the script bridge (lib.rs InCmd).
NoMsg == [incmd |-> "none", id |-> 0, val |-> ""]
AttributeMsg(i, v) == [incmd |-> "attribute", id |-> i, val |-> v]
ExistenceTestMsg(i, f) == [incmd |-> "existenceTest", id |-> i, val |-> f]
CallbackMsg(d) == [incmd |-> "callback", id |-> d, val |-> "args"]

\* What a script handed to eval may post through window.external.invoke.
\* "?" stands for the value the surface reads when the script runs.
UserScripts ==
    {NoMsg} \cup {AttributeMsg(i, "v") : i \in ReplyIds}
            \cup {ExistenceTestMsg(i, "true") : i \in BoolReplyIds}
            \cup {CallbackMsg(d) : d \in CbIds}

\* The script Element::attribute and Element::dom_html build for request id.
QueryScript(id) == AttributeMsg(id, "?")

\* What a component operation returned: the operation, its argument, the value.
\* h is the id of the handle the operation was given, 0 when it takes none.
ReturnedH(op, arg, h, val) == [op |-> op, arg |-> arg, h |-> h, val |-> val]
Returned(op, arg, val) == ReturnedH(op, arg, 0, val)
NoRet == Returned("none", None, None)

\* ResponseValue
StrValue(v) == [t |-> "Str", v |-> v]
BoolValue(f) == [t |-> "Bool", v |-> f]

VARIABLES
    pc,                 \* caller thread -> its position
    cur,                \* caller thread -> the operation it is in
    wlock,              \* writer of the RwLock<View>: a thread, R or Free
    poisoned,           \* the RwLock<View> is poisoned
    clock,              \* component -> [w: writer or Free, r: set of readers]
    cpoison,            \* component -> its RwLock is poisoned
    next_component_id,
    components,         \* id -> kind of the registered component
    next_callback_id,
    callbacks,          \* the ids of the callback registry
    next_request_id,
    requests,           \* id -> the thread whose reply channel the Sender feeds
    rxbuf,              \* caller thread -> values on its reply channel
    evalRes,            \* caller thread -> result on its eval_wait channel
    cmdQueue,           \* the command channel View.tx -> rx
    sent,               \* number of commands sent so far
    executed,           \* sequence number of the last command R took up
    rpc,                \* position of the rendering thread
    rcmd,               \* the command R is executing
    rmsg,               \* the message the invoke handler was called with
    inbox,              \* messages posted by scripts, not yet handed to the handler
    hdone,              \* what the handler did with the last message of this call
    children,           \* container -> ids of the handles in ComponentBase.components
    placeholders,       \* InstanceBuilder.placeholders: original id -> assigned name
    phase,              \* "builder", "building" (inside build) or "built"
    todo,               \* placeholders the loop of build has not yet taken
    html,               \* ComponentBase.html: the nodes in document order
    elements,           \* ComponentBase.elements: key -> element handle
    added,              \* identifiers inserted by add_child so far
    ret,                \* what the last component operation returned
    class,              \* the Class behind the ClassHandle: name, html, placeholders
    other,              \* a second InstanceBuilder of the class, and what it builds
    doc,                \* the markup handed to the parser: its nodes in document order
    parsed,             \* what Class::try_from_html / all_from_html returned for doc
    ph,                 \* a Placeholder whose name is spelled out, and its last call
    onclick,            \* event -> the OnClick of an element, and its last call
    loader,             \* a call of image_loader::load_all and its worker threads
    elem,               \* a node's tag, the element made for it and the tag it reports
    interp              \* a payload, character by character, and the script built from it

regs == <<next_component_id, components, next_callback_id, callbacks,
          next_request_id, requests>>
compRegs == <<next_component_id, components>>
cbRegs == <<next_callback_id, callbacks>>
reqRegs == <<next_request_id, requests>>
locks == <<wlock, poisoned>>
clocks == <<clock, cpoison>>
chans == <<rxbuf, evalRes>>
queue == <<cmdQueue, sent>>
render == <<executed, rpc, rcmd, rmsg, inbox, hdone>>
compVars == <<children, placeholders, phase, todo, html, elements, added, ret>>
parseVars == <<doc, parsed>>
libVars == <<loader, elem, interp>>
classVars == <<class, other, parseVars, ph, onclick, libVars>>
vars == <<pc, cur, wlock, poisoned, clock, cpoison, next_component_id,
          components, next_callback_id, callbacks, next_request_id, requests,
          rxbuf, evalRes, cmdQueue, sent, executed, rpc, rcmd, rmsg, inbox, hdone,
          children, placeholders, phase, todo, html, elements, added, ret,
          class, other, doc, parsed, ph, onclick, loader, elem, interp>>

EmptyMap == [x \in {} |-> None]                       \* HashMap default()
Insert(m, k, v) == [x \in DOMAIN m \cup {k} |-> IF x = k THEN v ELSE m[x]]
Remove(m, k) == [x \in DOMAIN m \ {k} |-> m[x]]

NoOp == [op |-> "none", comp |-> "c1", kind |-> "attribute", id |-> 0, err |-> FALSE]
NoCmd == [kind |-> "none", sender |-> None, js |-> NoMsg, seq |-> 0]

\* What a parsing function returned: Some / None or a map, or a panic, and
\* the classes it returned by name.
Parsed(op, out, classes) == [op |-> op, out |-> out, classes |-> classes]
NoParse == Parsed("none", "none", EmptyMap)
NoClass == [name |-> None, html |-> <<>>, placeholders |-> EmptyMap]

\* A call of load_all: the items of the iterator, the receivers pushed to
\* the list so far (one per spawned worker), the channel of each worker, the
\* workers in the order they finished, the vector of results and where the
\* call is.
\* A TagName: one of the known kinds, or Unknown with the name it wraps.
Tag(kind) == [kind |-> kind, name |-> ""]
UnknownTag(name) == [kind |-> "Unknown", name |-> name]

\* No node was given to TagName yet.
NoElem == [at |-> "none", tag |-> "", struct |-> [type |-> "none", id |-> "", name |-> ""],
           reported |-> Tag("none")]

\* No script with a payload was built yet.
NoJs == [op |-> "none", payload |-> <<>>, lit |-> <<>>]

NoLoad ==
    [items |-> <<>>, recvs |-> 0, chan |-> <<>>, finished |-> <<>>,
     vec |-> <<>>, at |-> "none"]

\* The elements that carry an OnClick.
Events == {"e1", "e2"}

\* The value of an attribute as far as its script is concerned: what it
\* says, the callback id it carries, whether it holds line breaks, how many
\* quote characters it holds and how many of them have a backslash put
\* before them.
AttrValue(text, id, breaks, quotes) ==
    [text |-> text, descriptor |-> id, breaks |-> breaks, quotes |-> quotes,
     escaped |-> 0]
NoScript == [attr |-> "none", value |-> AttrValue("", 0, FALSE, 0)]

\* An OnClick: callback_id (<<>> is None, <<id>> is Some(id)), the last
\* script it sent to the rendering thread, the ids add_callback gave it, its
\* last call and how that call ended.
NoOnClick ==
    [callback_id |-> <<>>, script |-> NoScript, mine |-> {},
     last |-> "none", out |-> "none"]

\* A Placeholder with its name spelled out in characters: the field new
\* (<<>> is None, <<s>> is Some(s)), what the last call returned (<<s>> for
\* the &String of generate_name, <<>> otherwise), and how many calls of
\* generate_name were the last calls, counted to two.
Placeholder(new, returned, calls) ==
    [new |-> new, ret |-> returned, calls |-> calls]

\* The Class of the markup: its name, its tree, one unassigned placeholder
\* for every id of the tree and for the class node.
CardClass ==
    [name |-> ClassName, html |-> Template,
     placeholders |-> [p \in PlaceholderIds |-> None]]

\* InstanceBuilder::new_for_handle: the builder's own copy of the class's
\* placeholders (handle.placeholders.to_owned()); nothing is built yet.
NewForHandle(cl) ==
    [placeholders |-> cl.placeholders, html |-> <<>>, phase |-> "builder"]

\* View::new_from_builder: both counters zero, all three maps empty, the
\* command channel empty, the rendering thread spawned and waiting in recv.
Init ==
    /\ pc = [t \in Threads |-> "idle"]
    /\ cur = [t \in Threads |-> NoOp]
    /\ wlock = Free
    /\ poisoned = FALSE
    /\ clock = [c \in Comps |-> [w |-> Free, r |-> {}]]
    /\ cpoison = [c \in Comps |-> FALSE]
    /\ next_component_id = 0
    /\ components = EmptyMap
    /\ next_callback_id = 0
    /\ callbacks = {}
    /\ next_request_id = 0
    /\ requests = EmptyMap
    /\ rxbuf = [t \in Threads |-> <<>>]
    /\ evalRes = [t \in Threads |-> None]
    /\ cmdQueue = <<>>
    /\ sent = 0
    /\ executed = 0
    /\ rpc = "idle"
    /\ rcmd = NoCmd
    /\ rmsg = NoMsg
    /\ inbox = <<>>
    /\ hdone = None
    \* InstanceBuilder::new_for_handle: the class's placeholders, none assigned;
    \* no component is built yet and no container has a nested component.
    /\ children = [c \in Containers |-> {}]
    /\ placeholders = [p \in PlaceholderIds |-> None]
    /\ phase = "builder"
    /\ todo = {}
    /\ html = <<>>
    /\ elements = EmptyMap
    /\ added = {}
    /\ ret = NoRet
    \* The class is the one of the markup; a second builder of it, untouched.
    /\ class = CardClass
    /\ other = NewForHandle(CardClass)
    \* No markup is written yet and nothing was parsed.
    /\ doc = <<>>
    /\ parsed = NoParse
    \* load_all was not called.
    /\ loader = NoLoad
    /\ interp = NoJs
    /\ elem = NoElem
    \* OnClick::new: no callback is set and no script was sent.
    /\ onclick = [e \in Events |-> NoOnClick]
    \* Placeholder::new: no name is set.
    /\ ph = Placeholder(<<>>, <<>>, 0)

\* ------------------------------------------------------------- primitives
\* The process runs until a panic aborts it.
Running == rpc # "aborted"

\* A thread that panics stops; its stack unwinds and drops its guards.
Panic(t) == pc' = [pc EXCEPT ![t] = "panicked"]
Goto(t, l) == pc' = [pc EXCEPT ![t] = l]

\* Queries that passed their start and have not yet sent their command.
PendingSend ==
    Cardinality({u \in Threads :
        pc[u] \in {"q_newreq_lock", "q_newreq", "q_eval_lock", "q_insert", "q_send"}})

\* Faulty variant of SendCmd: the caller runs the script on the surface itself.
SendCmd_Direct(kind, sender, js) ==
    /\ sent' = sent + 1
    /\ inbox' = IF js = NoMsg THEN inbox ELSE Append(inbox, js)
    /\ UNCHANGED <<cmdQueue, executed, rpc, rcmd, rmsg, hdone>>

\* mpsc::Sender::send on View.tx: the command goes to the back of the channel.
SendCmd(kind, sender, js) ==
    /\ cmdQueue' = Append(cmdQueue,
                     [kind |-> kind, sender |-> sender, js |-> js, seq |-> sent + 1])
    /\ sent' = sent + 1
    /\ UNCHANGED render

\* Faulty variant of Dequeue: the newest command is taken first.
Dequeue_Lifo(q) == [cmd |-> q[Len(q)], rest |-> SubSeq(q, 1, Len(q) - 1)]

\* mpsc::Receiver::recv of the dispatch loop: the command at the front.
Dequeue(q) == [cmd |-> Head(q), rest |-> Tail(q)]

\* Dropping a guard of a component's RwLock; a write guard dropped while
\* panicking poisons the lock.
CompRelease(t, c, panicking) ==
    /\ clock' = [clock EXCEPT ![c] =
                    [w |-> IF @.w = t THEN Free ELSE @.w, r |-> @.r \ {t}]]
    /\ cpoison' = [cpoison EXCEPT ![c] = @ \/ (panicking /\ clock[c].w = t)]

\* The reply channel of thread t still has a Sender: in its RequestBuilder
\* or in the pending-requests registry.
SenderAlive(t) ==
    \/ pc[t] \in {"q_eval_lock", "q_insert"}
    \/ \E i \in DOMAIN requests : requests[i] = t

\* What mpsc::Receiver::recv on t's reply channel does now.
RecvOutcome(t) ==
    IF rxbuf[t] # <<>> THEN "value"
    ELSE IF ~SenderAlive(t) THEN "closed"
    ELSE "block"

\* Faulty variant of RemoveRequest: the entry stays.
RemoveRequest_Keep(reqs, id) == reqs

\* View::remove_request
RemoveRequest(reqs, id) == Remove(reqs, id)

\* Faulty variant of Respond: the value is sent and the entry stays.
Respond_KeepEntry(reqs, bufs, id, val) ==
    IF id \in DOMAIN reqs
    THEN [requests |-> reqs,
          rxbuf |-> [bufs EXCEPT ![reqs[id]] = Append(@, val)]]
    ELSE [requests |-> reqs, rxbuf |-> bufs]

\* Faulty variant of Respond: a reply for an unknown id resolves some pending request.
Respond_Misdeliver(reqs, bufs, id, val) ==
    LET j == IF id \in DOMAIN reqs \/ DOMAIN reqs = {} THEN id
             ELSE CHOOSE k \in DOMAIN reqs : TRUE
    IN IF j \in DOMAIN reqs
       THEN [requests |-> Remove(reqs, j),
             rxbuf |-> [bufs EXCEPT ![reqs[j]] = Append(@, val)]]
       ELSE [requests |-> reqs, rxbuf |-> bufs]

\* View::respond: the registries and channels after a reply for id.
Respond(reqs, bufs, id, val) ==
    IF id \in DOMAIN reqs
    THEN [requests |-> Remove(reqs, id),
          rxbuf |-> [bufs EXCEPT ![reqs[id]] = Append(@, val)]]
    ELSE [requests |-> reqs, rxbuf |-> bufs]

\* --------------------------------------------- ViewWrap::eval, inject_css
\* The rendering thread ends only by a panic of the invoke handler on a
\* poisoned RwLock<View>; from then on every write().unwrap() of a caller
\* panics before it reaches tx.send or rx.recv, whose unwrap so never fails.

\* ViewWrap::eval -> View::eval: write lock, send Eval(None, js), unlock.
Eval(t, js) ==
    /\ Running
    /\ pc[t] = "idle"
    /\ sent + PendingSend < MaxCmds
    /\ wlock = Free
    /\ IF poisoned
       THEN Panic(t) /\ UNCHANGED <<queue, render>>
       ELSE SendCmd("Eval", None, js) /\ UNCHANGED pc
    /\ UNCHANGED <<cur, locks, clocks, regs, chans>>
    /\ UNCHANGED <<compVars, classVars>>

\* ViewWrap::inject_css -> View::inject_css
InjectCss(t) ==
    /\ Running
    /\ pc[t] = "idle"
    /\ sent + PendingSend < MaxCmds
    /\ wlock = Free
    /\ IF poisoned
       THEN Panic(t) /\ UNCHANGED <<queue, render>>
       ELSE SendCmd("InjectCss", None, NoMsg) /\ UNCHANGED pc
    /\ UNCHANGED <<cur, locks, clocks, regs, chans>>
    /\ UNCHANGED <<compVars, classVars>>

\* ------------------------------------------------------ ViewWrap::eval_wait
\* write lock, send Eval(Some(tx), js); the guard lives until eval_wait returns.
EvalWaitSend(t, js) ==
    /\ Running
    /\ pc[t] = "idle"
    /\ sent + PendingSend < MaxCmds
    /\ wlock = Free
    /\ IF poisoned
       THEN Panic(t) /\ UNCHANGED <<queue, render, wlock, cur>>
       ELSE /\ SendCmd("Eval", t, js)
            /\ wlock' = t
            /\ Goto(t, "evw_recv")
            /\ cur' = [cur EXCEPT ![t] = [NoOp EXCEPT !.op = "eval_wait"]]
    /\ UNCHANGED <<poisoned, clocks, regs, chans>>
    /\ UNCHANGED <<compVars, classVars>>

\* rx.recv().unwrap() in View::eval_wait, then the guard is dropped.
EvalWaitRecv(t) ==
    /\ Running
    /\ pc[t] = "evw_recv"
    /\ evalRes[t] # None
    /\ evalRes' = [evalRes EXCEPT ![t] = None]
    /\ Goto(t, "idle")
    /\ wlock' = Free
    /\ cur' = [cur EXCEPT ![t] = NoOp]
    /\ UNCHANGED <<poisoned, clocks, regs, rxbuf, queue, render>>
    /\ UNCHANGED <<compVars, classVars>>

\* ------------------------------------------- Element::attribute, dom_html
\* The caller reaches the element through its component's handle:
\* ComponentHandle::read for attribute (&self), ComponentHandle::write for
\* dom_html (&mut self); unwrap panics on a poisoned component lock.
QStart(t, c, kind) ==
    /\ Running
    /\ pc[t] = "idle"
    /\ sent + PendingSend < MaxCmds
    /\ clock[c].w = Free
    /\ kind = "dom_html" => clock[c].r = {}
    /\ IF cpoison[c]
       THEN Panic(t) /\ UNCHANGED <<clock, cur, rxbuf>>
       ELSE /\ clock' = [clock EXCEPT ![c] =
                           IF kind = "dom_html" THEN [@ EXCEPT !.w = t]
                           ELSE [@ EXCEPT !.r = @ \cup {t}]]
            /\ cur' = [cur EXCEPT ![t] =
                         [op |-> "query", comp |-> c, kind |-> kind, id |-> 0,
                          err |-> FALSE]]
            /\ rxbuf' = [rxbuf EXCEPT ![t] = <<>>]
            /\ Goto(t, "q_newreq_lock")
    /\ UNCHANGED <<locks, cpoison, regs, evalRes, queue, render>>
    /\ UNCHANGED <<compVars, classVars>>

\* self.view_mut().new_request(): view_mut hands out the write guard of the
\* runtime (RwLockWriteGuardRefMut<View>); unwrap panics on a poisoned lock.
QNewRequestLock(t) ==
    /\ Running
    /\ pc[t] = "q_newreq_lock"
    /\ wlock = Free
    /\ IF poisoned
       THEN Panic(t) /\ CompRelease(t, cur[t].comp, TRUE) /\ UNCHANGED wlock
       ELSE wlock' = t /\ Goto(t, "q_newreq") /\ UNCHANGED clocks
    /\ UNCHANGED <<cur, poisoned, regs, chans, queue, render>>
    /\ UNCHANGED <<compVars, classVars>>

\* Faulty variant of QNewRequest: the counter is left as it is.
QNewRequest_SameId(t) ==
    /\ Running
    /\ pc[t] = "q_newreq"
    /\ cur' = [cur EXCEPT ![t].id = next_request_id]
    /\ wlock' = Free
    /\ Goto(t, "q_eval_lock")
    /\ UNCHANGED <<poisoned, clocks, regs, chans, queue, render>>
    /\ UNCHANGED <<compVars, classVars>>

\* View::new_request: the id is the counter, which grows by one;
\* RequestBuilder::new makes the reply channel.  The guard is dropped.
QNewRequest(t) ==
    /\ Running
    /\ pc[t] = "q_newreq"
    /\ cur' = [cur EXCEPT ![t].id = next_request_id]
    /\ next_request_id' = next_request_id + 1
    /\ wlock' = Free
    /\ Goto(t, "q_eval_lock")
    /\ UNCHANGED <<poisoned, clocks, compRegs, cbRegs, requests, chans,
                   queue, render>>
    /\ UNCHANGED <<compVars, classVars>>

\* Faulty variant of QEvalLock: the registry is reached without the write lock.
QEvalLock_NoLock(t) ==
    /\ Running
    /\ pc[t] = "q_eval_lock"
    /\ Goto(t, "q_insert")
    /\ UNCHANGED <<cur, locks, clocks, regs, chans, queue, render>>
    /\ UNCHANGED <<compVars, classVars>>

\* RequestBuilder::eval: self.view.write().unwrap()
QEvalLock(t) ==
    /\ Running
    /\ pc[t] = "q_eval_lock"
    /\ wlock = Free
    /\ IF poisoned
       THEN Panic(t) /\ CompRelease(t, cur[t].comp, TRUE) /\ UNCHANGED wlock
       ELSE wlock' = t /\ Goto(t, "q_insert") /\ UNCHANGED clocks
    /\ UNCHANGED <<cur, poisoned, regs, chans, queue, render>>
    /\ UNCHANGED <<compVars, classVars>>

\* Faulty variant of QEvalInsert: the script is handed to the rendering
\* thread first, with the reply channel not stored.
QEvalInsert_SendFirst(t) ==
    /\ Running
    /\ pc[t] = "q_insert"
    /\ SendCmd("Eval", t, QueryScript(cur[t].id))
    /\ Goto(t, "q_evw_recv")
    /\ UNCHANGED <<cur, locks, clocks, regs, chans>>
    /\ UNCHANGED <<compVars, classVars>>

\* RequestBuilder::eval: lock.requests.insert(id, self.tx)
QEvalInsert(t) ==
    /\ Running
    /\ pc[t] = "q_insert"
    /\ requests' = Insert(requests, cur[t].id, t)
    /\ Goto(t, "q_send")
    /\ UNCHANGED <<cur, locks, clocks, compRegs, cbRegs, next_request_id,
                   chans, queue, render>>
    /\ UNCHANGED <<compVars, classVars>>

\* RequestBuilder::eval -> View::eval_wait: send Eval(Some(tx), js)
QEvalSend(t) ==
    /\ Running
    /\ pc[t] = "q_send"
    /\ SendCmd("Eval", t, QueryScript(cur[t].id))
    /\ Goto(t, "q_evw_recv")
    /\ UNCHANGED <<cur, locks, clocks, regs, chans>>
    /\ UNCHANGED <<compVars, classVars>>

\* RequestBuilder::eval: eval_wait returns; on Err the entry is removed and
\* the Sender it held is dropped; the guard is dropped; rx is returned.
QEvalRecv(t) ==
    /\ Running
    /\ pc[t] = "q_evw_recv"
    /\ evalRes[t] # None
    /\ LET err == evalRes[t] = "Err" IN
        /\ cur' = [cur EXCEPT ![t].err = err]
        /\ requests' = IF err THEN RemoveRequest(requests, cur[t].id) ELSE requests
    /\ evalRes' = [evalRes EXCEPT ![t] = None]
    /\ wlock' = Free
    /\ Goto(t, "q_recv")
    /\ UNCHANGED <<poisoned, clocks, compRegs, cbRegs, next_request_id,
                   rxbuf, queue, render>>
    /\ UNCHANGED <<compVars, classVars>>

\* What the query returns for what rx.recv() gave.
\* attribute: receiver.recv().unwrap(); Str("") is None; Bool is unreachable!().
\* dom_html: Err is None; Str("") is None; Bool is unreachable!().
QueryResult(kind, outcome, val) ==
    IF outcome = "closed"
    THEN (IF kind = "attribute" THEN "panic" ELSE "None")
    ELSE IF val.t = "Bool" THEN "panic"
    ELSE IF val.v = "" THEN "None"
    ELSE "Some"

\* rx.recv() in Element::attribute / Element::dom_html and the return.
QRecv(t) ==
    /\ Running
    /\ pc[t] = "q_recv"
    /\ RecvOutcome(t) # "block"
    /\ LET out == RecvOutcome(t)
           val == IF out = "value" THEN Head(rxbuf[t]) ELSE StrValue("")
           res == QueryResult(cur[t].kind, out, val)
       IN /\ IF res = "panic" THEN Panic(t) ELSE Goto(t, "idle")
          /\ CompRelease(t, cur[t].comp, res = "panic")
          /\ cur' = IF res = "panic" THEN cur ELSE [cur EXCEPT ![t] = NoOp]
    /\ rxbuf' = [rxbuf EXCEPT ![t] = <<>>]
    /\ UNCHANGED <<locks, regs, evalRes, queue, render>>
    /\ UNCHANGED <<compVars, classVars>>

\* ------------------------------------------------- components and handles
\* add_component takes &mut self of its container: each container is in the
\* hands of one caller, the RootComponent in those of t1.
Owner(t) == IF t = "t1" THEN "root" ELSE "base"

\* Container::add_component of the caller's container (ComponentBase, or
\* RootComponent through its base) with a component of the given kind.
\* View::add_component takes &mut self: the caller holds the write guard.
AddComponentLock(t, kind) ==
    /\ Running
    /\ pc[t] = "idle"
    /\ next_component_id
         + Cardinality({u \in Threads : pc[u] = "ac_insert"}) < MaxComponents
    /\ wlock = Free
    /\ IF poisoned
       THEN Panic(t) /\ UNCHANGED <<wlock, cur>>
       ELSE /\ wlock' = t
            /\ Goto(t, "ac_insert")
            /\ cur' = [cur EXCEPT ![t] =
                         [NoOp EXCEPT !.op = "add_component",
                                      !.comp = Owner(t), !.kind = kind]]
    /\ UNCHANGED <<poisoned, clocks, regs, chans, queue, render>>
    /\ UNCHANGED <<compVars, classVars>>

\* View::add_component: id = next_component_id, the counter grows by one,
\* the component is inserted under id; then ComponentHandle::new(handle, id).
AddComponentInsert(t) ==
    /\ Running
    /\ pc[t] = "ac_insert"
    /\ components' = Insert(components, next_component_id, cur[t].kind)
    /\ next_component_id' = next_component_id + 1
    /\ cur' = [cur EXCEPT ![t].id = next_component_id]
    /\ Goto(t, "handle_new")
    /\ UNCHANGED <<locks, clocks, cbRegs, reqRegs, chans, queue, render>>
    /\ UNCHANGED <<compVars, classVars>>

\* ViewWrap::root_component -> View::root_component:
\* write lock, then ComponentHandle::new(self.handle(), ROOT_COMPONENT_ID).
RootComponent(t) ==
    /\ Running
    /\ pc[t] = "idle"
    /\ wlock = Free
    /\ IF poisoned
       THEN Panic(t) /\ UNCHANGED <<wlock, cur>>
       ELSE /\ wlock' = t
            /\ Goto(t, "handle_new")
            /\ cur' = [cur EXCEPT ![t] =
                         [NoOp EXCEPT !.op = "root_component",
                                      !.id = ROOT_COMPONENT_ID]]
    /\ UNCHANGED <<poisoned, clocks, regs, chans, queue, render>>
    /\ UNCHANGED <<compVars, classVars>>

\* ComponentHandle::new: interface.i.read() on the RwLock whose write guard
\* the calling thread itself holds.  std leaves the outcome open: the read
\* blocks for ever (no step from "handle_new"), or it panics, which this
\* action is; the write guard is dropped while panicking and poisons the lock.
ComponentHandleNew(t) ==
    /\ Running
    /\ pc[t] = "handle_new"
    /\ wlock = t
    /\ Panic(t)
    /\ wlock' = Free
    /\ poisoned' = TRUE
    /\ UNCHANGED <<cur, clocks, regs, chans, queue, render>>
    /\ UNCHANGED <<compVars, classVars>>

\* ------------------------------------------------------------- callbacks
\* View::add_callback takes &mut self: the caller holds the write guard.
AddCallbackLock(t) ==
    /\ Running
    /\ pc[t] = "idle"
    /\ next_callback_id
         + Cardinality({u \in Threads : pc[u] = "cb_add"}) < MaxCallbacks
    /\ wlock = Free
    /\ IF poisoned
       THEN Panic(t) /\ UNCHANGED <<wlock, cur>>
       ELSE /\ wlock' = t
            /\ Goto(t, "cb_add")
            /\ cur' = [cur EXCEPT ![t] = [NoOp EXCEPT !.op = "add_callback"]]
    /\ UNCHANGED <<poisoned, clocks, regs, chans, queue, render>>
    /\ UNCHANGED <<compVars, classVars>>

\* View::add_callback: insert under next_callback_id, the counter grows by one.
AddCallback(t) ==
    /\ Running
    /\ pc[t] = "cb_add"
    /\ callbacks' = callbacks \cup {next_callback_id}
    /\ next_callback_id' = next_callback_id + 1
    /\ wlock' = Free
    /\ Goto(t, "idle")
    /\ cur' = [cur EXCEPT ![t] = NoOp]
    /\ UNCHANGED <<poisoned, clocks, compRegs, reqRegs, chans, queue, render>>
    /\ UNCHANGED <<compVars, classVars>>

\* ------------------------------------------------- the rendering thread
\* What the script posts when the surface runs it: "?" becomes the value read.
Posted(js, v) == IF js.val = "?" THEN [js EXCEPT !.val = v] ELSE js

\* The dispatch loop: rx.recv() gives the next command and R enters
\* webview.eval(st) / webview.inject_css(st).  A script may post its message.
RRecv ==
    /\ rpc = "idle"
    /\ cmdQueue # <<>>
    /\ LET d == Dequeue(cmdQueue) IN
        /\ rcmd' = d.cmd
        /\ cmdQueue' = d.rest
        /\ executed' = d.cmd.seq
        /\ IF d.cmd.js = NoMsg
           THEN UNCHANGED inbox
           ELSE \E emit \in BOOLEAN, v \in StrValues :
                   inbox' = IF emit THEN Append(inbox, Posted(d.cmd.js, v))
                            ELSE inbox
    /\ rpc' = "webview"
    /\ UNCHANGED <<pc, cur, locks, clocks, regs, chans, sent, rmsg, hdone>>
    /\ UNCHANGED <<compVars, classVars>>

\* Inside a web view call the surface calls the invoke handler with a posted
\* message; the handler starts with arc2.write().
RHandlerEnter ==
    /\ rpc = "webview"
    /\ inbox # <<>>
    /\ rmsg' = Head(inbox)
    /\ inbox' = Tail(inbox)
    /\ rpc' = "h_lock"
    /\ hdone' = None
    /\ UNCHANGED <<pc, cur, locks, clocks, regs, chans, queue, executed,
                   rcmd>>
    /\ UNCHANGED <<compVars, classVars>>

\* arc2.write().unwrap() of the invoke handler.  On a poisoned lock it panics
\* inside the web view's callback: the rendering thread ends, or the process
\* aborts.
RHandlerLock ==
    /\ rpc = "h_lock"
    /\ wlock = Free
    /\ IF poisoned
       THEN /\ \E o \in {"dead", "aborted"} : rpc' = o
            /\ cmdQueue' = <<>>
            /\ UNCHANGED wlock
       ELSE wlock' = R /\ rpc' = "h_run" /\ UNCHANGED cmdQueue
    /\ UNCHANGED <<pc, cur, poisoned, clocks, regs, chans, sent, executed,
                   rcmd, rmsg, inbox, hdone>>
    /\ UNCHANGED <<compVars, classVars>>

\* Faulty variant of HasCallback: some callback is found for every id.
HasCallback_Any(cbs, id) == TRUE

\* View::callback: whether a callback is registered under id.
HasCallback(cbs, id) == id \in cbs

\* What the body of a registered callback does with the ViewHandle it is
\* given: nothing, or a runtime operation, each of which starts with write()
\* on the RwLock<View>.
CallbackBodies == {"returns", "eval", "set_attribute", "query"}

\* View::handler under the write guard.  A callback is called with the guard
\* held: f(s, args); a body that calls a runtime operation comes to that
\* operation's write().  Otherwise the handler returns and the guard is
\* dropped.
RHandlerRun ==
    /\ rpc = "h_run"
    /\ IF rmsg.incmd = "callback"
       THEN /\ hdone' = IF HasCallback(callbacks, rmsg.id)
                        THEN "called" ELSE "nocallback"
            /\ UNCHANGED <<requests, rxbuf>>
            /\ \E body \in CallbackBodies :
                  IF HasCallback(callbacks, rmsg.id) /\ body # "returns"
                  THEN rpc' = "cb_write" /\ UNCHANGED wlock
                  ELSE rpc' = "webview" /\ wlock' = Free
       ELSE LET val == IF rmsg.incmd = "existenceTest"
                       THEN BoolValue(rmsg.val) ELSE StrValue(rmsg.val)
                r == Respond(requests, rxbuf, rmsg.id, val)
            IN /\ requests' = r.requests
               /\ rxbuf' = r.rxbuf
               /\ hdone' = IF rmsg.id \in DOMAIN requests
                           THEN "resolved" ELSE "ignored"
               /\ wlock' = Free
               /\ rpc' = "webview"
    /\ UNCHANGED <<pc, cur, poisoned, clocks, compRegs, cbRegs,
                   next_request_id, evalRes, queue, executed, rcmd, rmsg, inbox>>
    /\ UNCHANGED <<compVars, classVars>>

\* write().unwrap() of a runtime operation called by a callback, on the
\* RwLock<View> whose write guard the rendering thread itself holds in the
\* invoke handler.  std leaves the outcome open: the call blocks for ever (no
\* step from "cb_write"), or it panics, which this action is: the guard of
\* the handler is dropped while panicking and poisons the lock, and the
\* panic leaves the web view's callback, so the rendering thread ends or the
\* process aborts.
RCallbackWrite ==
    /\ rpc = "cb_write"
    /\ wlock = R
    /\ \E o \in {"dead", "aborted"} : rpc' = o
    /\ cmdQueue' = <<>>
    /\ wlock' = Free
    /\ poisoned' = TRUE
    /\ UNCHANGED <<pc, cur, clocks, regs, chans, sent, executed, rcmd, rmsg,
                   inbox, hdone>>
    /\ UNCHANGED <<compVars, classVars>>

\* webview.eval / inject_css returns; Eval(Some(sender), _) sends the result.
RReturn ==
    /\ rpc = "webview"
    /\ IF rcmd.sender # None
       THEN \E res \in {"Ok", "Err"} :
                evalRes' = [evalRes EXCEPT ![rcmd.sender] = res]
       ELSE UNCHANGED evalRes
    /\ rpc' = "idle"
    /\ rcmd' = NoCmd
    /\ rmsg' = NoMsg
    /\ hdone' = None
    /\ UNCHANGED <<pc, cur, locks, clocks, regs, rxbuf, queue, executed,
                   inbox>>
    /\ UNCHANGED <<compVars, classVars>>

\* ------------------------------------------- InstanceBuilder, ComponentBase
\* The operations of one caller on the component it builds and owns.
runtimeVars == <<pc, cur, locks, clocks, regs, chans, queue, render>>

\* InstanceBuilder::element_by_id_mut(p) and Placeholder::set_name(n).
SetName(p, n) ==
    /\ phase = "builder"
    /\ placeholders' = [placeholders EXCEPT ![p] = n]
    /\ UNCHANGED <<children, phase, todo, html, elements, added, ret>>
    /\ UNCHANGED <<runtimeVars, classVars>>

\* InstanceBuilder::element_by_id_mut(p) and Placeholder::remove_name.
RemoveName(p) ==
    /\ phase = "builder"
    /\ placeholders[p] # None
    /\ placeholders' = [placeholders EXCEPT ![p] = None]
    /\ UNCHANGED <<children, phase, todo, html, elements, added, ret>>
    /\ UNCHANGED <<runtimeVars, classVars>>

\* InstanceBuilder::build, up to its loop: the tree is an owned copy of the
\* class's tree, the elements map is empty.
BuildStart ==
    /\ phase = "builder"
    /\ phase' = "building"
    /\ html' = class.html
    /\ todo' = DOMAIN placeholders
    /\ elements' = EmptyMap
    /\ UNCHANGED <<children, placeholders, added, ret>>
    /\ UNCHANGED <<runtimeVars, classVars>>

\* children_fetch_mut().key("id").value(initial).fetch_mut().iter_mut().next():
\* the first node, in document order, whose id is initial; 0 when there is none.
FetchFirst(tree, initial) ==
    IF \E i \in DOMAIN tree : tree[i].id = initial
    THEN CHOOSE i \in DOMAIN tree :
            /\ tree[i].id = initial
            /\ \A j \in DOMAIN tree : tree[j].id = initial => i <= j
    ELSE 0

\* Faulty variant of NewId: a placeholder without a name gets the class name.
NewId_ClassName(new) == IF new = None THEN ClassName ELSE new

\* The id build writes for a placeholder: its assigned name, or "".
NewId(new) == IF new = None THEN "" ELSE new

\* Faulty variant of BuildKey: the element is stored under the id its node
\* now carries.
BuildKey_Assigned(initial, new) == NewId(new)

\* The key build stores a placeholder's element under: the original id.
BuildKey(initial, new) == initial

\* TagName::try_impl_from_node: the element of the node's tag, bound to the
\* value of the node's id attribute.
ImplFromNode(node) == [tag |-> node.tag, id |-> node.id]

\* Faulty variant of BuildStep: the element is made from the node before the
\* node's id is overwritten.
BuildStep_ElemFirst(p) ==
    /\ phase = "building"
    /\ p \in todo
    /\ LET i == FetchFirst(html, p) IN
        IF i = 0
        THEN /\ phase' = "panicked"
             /\ UNCHANGED <<html, elements, todo>>
        ELSE /\ html' = [html EXCEPT ![i].id = NewId(placeholders[p])]
             /\ elements' = Insert(elements, BuildKey(p, placeholders[p]),
                                   ImplFromNode(html[i]))
             /\ todo' = todo \ {p}
             /\ phase' = IF todo = {p} THEN "built" ELSE "building"
    /\ UNCHANGED <<children, placeholders, added, ret>>
    /\ UNCHANGED <<runtimeVars, classVars>>

\* One round of the loop of build, for the placeholder p the HashMap's
\* iterator yields next (any order): the node is fetched by p's original id,
\* its id is overwritten, its element is made and stored.  unwrap() panics
\* when no node has the id.  After the last round build returns.
BuildStep(p) ==
    /\ phase = "building"
    /\ p \in todo
    /\ LET i == FetchFirst(html, p) IN
        IF i = 0
        THEN /\ phase' = "panicked"
             /\ UNCHANGED <<html, elements, todo>>
        ELSE LET node == [html[i] EXCEPT !.id = NewId(placeholders[p])] IN
             /\ html' = [html EXCEPT ![i] = node]
             /\ elements' = Insert(elements, BuildKey(p, placeholders[p]),
                                   ImplFromNode(node))
             /\ todo' = todo \ {p}
             /\ phase' = IF todo = {p} THEN "built" ELSE "building"
    /\ UNCHANGED <<children, placeholders, added, ret>>
    /\ UNCHANGED <<runtimeVars, classVars>>

\* ComponentBase::name: the id of the first node of the tree.
Name == html[1].id

\* Faulty variant of AddChildElements: the element is stored whether or not
\* the key is taken.
AddChildElements_Overwrite(elems, child) == Insert(elems, child.id, child)

\* ChildrenLogic::add_child of ComponentBase, keyed by the child's id.
AddChildElements(elems, child) ==
    IF child.id \in DOMAIN elems THEN elems ELSE Insert(elems, child.id, child)

AddChild(child) ==
    /\ phase = "built"
    /\ ret' = Returned("add_child", child.id,
                IF child.id \in DOMAIN elements THEN "AlreadyPresent" ELSE "Ok")
    /\ elements' = AddChildElements(elements, child)
    /\ added' = IF child.id \in DOMAIN elements THEN added
                ELSE added \cup {child.id}
    /\ UNCHANGED <<children, placeholders, phase, todo, html>>
    /\ UNCHANGED <<runtimeVars, classVars>>

\* ChildrenLogic::remove_child of ComponentBase.
RemoveChild(id) ==
    /\ phase = "built"
    /\ ret' = Returned("remove_child", id,
                IF id \in DOMAIN elements THEN "Some" ELSE "None")
    /\ elements' = Remove(elements, id)
    /\ UNCHANGED <<children, placeholders, phase, todo, html, added>>
    /\ UNCHANGED <<runtimeVars, classVars>>

\* ChildrenLogic::contains_child of ComponentBase.
ContainsChild(id) ==
    /\ phase = "built"
    /\ ret' = Returned("contains_child", id,
                IF id \in DOMAIN elements THEN "true" ELSE "false")
    /\ UNCHANGED <<children, placeholders, phase, todo, html, elements, added>>
    /\ UNCHANGED <<runtimeVars, classVars>>

\* Faulty variant of HasComponent: every handle is taken for a child.
HasComponent_Always(ch, h) == TRUE

\* ------------------------------------------ two instances of one class
MutatedIds == {"zap"}             \* an id written through current_html_mut
MutatedNodes == {1, 2}            \* the nodes it is written to

\* Faulty variant of MutateHtml: the second instance's tree is the same tree.
MutateHtml_Aliased(i, v) ==
    /\ phase = "built"
    /\ html' = [html EXCEPT ![i].id = v]
    /\ other' = IF other.phase = "built"
                THEN [other EXCEPT !.html[i].id = v] ELSE other
    /\ UNCHANGED <<children, placeholders, phase, todo, elements, added, ret>>
    /\ UNCHANGED <<runtimeVars, class, parseVars, ph, onclick, libVars>>

\* ComponentBase::current_html_mut, used to overwrite the id of node i of the
\* component's own tree.
MutateHtml(i, v) ==
    /\ phase = "built"
    /\ html' = [html EXCEPT ![i].id = v]
    /\ UNCHANGED <<children, placeholders, phase, todo, elements, added, ret>>
    /\ UNCHANGED <<runtimeVars, classVars>>

\* A name Placeholder::generate_name may make: "autogen" and 8 characters.
GeneratedNames == {"autogenZa0Za0Za"}

\* Placeholder::generate_name: the name is made, then self.set_name(s).
GenerateName(p, s) == SetName(p, s)

\* InstanceBuilder::new_for_handle once more: the second builder is dropped
\* and a new one takes its place.
OtherNew ==
    /\ other # NewForHandle(class)
    /\ other' = NewForHandle(class)
    /\ UNCHANGED <<runtimeVars, compVars, class, parseVars, ph, onclick, libVars>>

\* Faulty variant of OtherSetName: the name is written to the class's
\* placeholder as well.
OtherSetName_Class(p, n) ==
    /\ other.phase = "builder"
    /\ other' = [other EXCEPT !.placeholders[p] = n]
    /\ class' = [class EXCEPT !.placeholders[p] = n]
    /\ UNCHANGED <<runtimeVars, compVars, parseVars, ph, onclick, libVars>>

\* Placeholder::set_name through the second builder's element_by_id_mut.
OtherSetName(p, n) ==
    /\ other.phase = "builder"
    /\ other' = [other EXCEPT !.placeholders[p] = n]
    /\ UNCHANGED <<runtimeVars, compVars, class, parseVars, ph, onclick, libVars>>

\* The orders in which a HashMap's iterator may yield the placeholders.
Orders ==
    {o \in [1..Cardinality(PlaceholderIds) -> PlaceholderIds] :
        \A i, j \in DOMAIN o : o[i] = o[j] => i = j}

\* The rounds of the loop of build over the tree, in the given order; <<>>
\* when unwrap() panics because no node has the id.
RECURSIVE BuildRounds(_, _, _)
BuildRounds(tree, phs, order) ==
    IF order = <<>> \/ tree = <<>> THEN tree
    ELSE LET i == FetchFirst(tree, Head(order)) IN
         IF i = 0 THEN <<>>
         ELSE BuildRounds([tree EXCEPT ![i].id = NewId(phs[Head(order)])],
                          phs, Tail(order))

\* InstanceBuilder::build of the second builder: an owned copy of the class's
\* tree, rewritten by the loop.
OtherBuild(order) ==
    /\ other.phase = "builder"
    /\ LET tree == BuildRounds(class.html, other.placeholders, order) IN
        other' = [other EXCEPT !.html = tree,
                               !.phase = IF tree = <<>> THEN "panicked" ELSE "built"]
    /\ UNCHANGED <<runtimeVars, compVars, class, parseVars, ph, onclick, libVars>>

\* ComponentBase::current_html_mut of the second instance.
OtherMutateHtml(i, v) ==
    /\ other.phase = "built"
    /\ other' = [other EXCEPT !.html[i].id = v]
    /\ UNCHANGED <<runtimeVars, compVars, class, parseVars, ph, onclick, libVars>>

\* Container::has_component of ComponentBase: HashSet::contains, and handles
\* are equal when their ids are.
HasComponent(ch, h) == h \in ch

\* Faulty variant of RemoveEvaluates: the root evaluates its script whatever
\* the base answered.
RemoveEvaluates_Always(c, found) == c = "root"

\* RootComponent::remove_component evaluates its script when the base found
\* the handle; ComponentBase::remove_component evaluates nothing.
RemoveEvaluates(c, found) == c = "root" /\ found

\* Container::remove_component of ComponentBase and of RootComponent, with the
\* handle of id h.  A handle that is in the set is removed from it, then
\* View::remove_component drops the id from the registry (under the write
\* lock, free here: the caller is the only thread), then the root hands
\* "outerHTML = ''" to View::eval, which sends it and returns.
RemoveComponent(c, h) ==
    /\ phase = "built"
    /\ wlock = Free /\ ~poisoned
    /\ LET found == HasComponent(children[c], h) IN
        /\ children' = [children EXCEPT ![c] = IF found THEN @ \ {h} ELSE @]
        /\ components' = IF found THEN Remove(components, h) ELSE components
        /\ IF RemoveEvaluates(c, found)
           THEN sent < MaxCmds /\ SendCmd("Eval", None, NoMsg)
           ELSE UNCHANGED <<queue, render>>
        /\ ret' = ReturnedH("remove_component", c, h,
                            IF found THEN "Some" ELSE "None")
    /\ UNCHANGED <<placeholders, phase, todo, html, elements, added>>
    /\ UNCHANGED <<pc, cur, locks, clocks, next_component_id, cbRegs, reqRegs, chans>>
    /\ UNCHANGED classVars

\* ---------------------------------------------- image_loader::load_all
\* The binaries of two one-byte files and base64::encode of them.
Binaries == {"M", "a"}
Base64(bin) == IF bin = "M" THEN "TQ==" ELSE "YQ=="
ImageFormats == {"Png", "Jpg"}
LoadItems == [bin : Binaries, format : ImageFormats]

\* Image::from_binary
FromBinary(item) == [base64 |-> Base64(item.bin), format |-> item.format]

\* load_all is called with an iterator; the caller writes its items one by
\* one before the call.
LoadWrite(item) ==
    /\ loader.at = "none"
    /\ Len(loader.items) < MaxItems
    /\ loader' = [loader EXCEPT !.items = Append(@, item)]
    /\ UNCHANGED <<runtimeVars, compVars, class, other, parseVars, ph, onclick, elem, interp>>

\* load_all starts on the items written.
LoadAll ==
    /\ loader.at = "none"
    /\ loader' = [loader EXCEPT !.at = "spawn"]
    /\ UNCHANGED <<runtimeVars, compVars, class, other, parseVars, ph, onclick, elem, interp>>

\* One round of the first loop: a channel is made, its receiver pushed to
\* the back of the list and a worker spawned with the item and the sender.
\* After the last item the second loop starts.
LoadSpawn ==
    /\ loader.at = "spawn"
    /\ IF loader.recvs < Len(loader.items)
       THEN loader' = [loader EXCEPT !.recvs = @ + 1, !.chan = Append(@, <<>>)]
       ELSE loader' = [loader EXCEPT !.at = "collect"]
    /\ UNCHANGED <<runtimeVars, compVars, class, other, parseVars, ph, onclick, elem, interp>>

\* Worker k: Image::from_binary(arr, format), then tx.send(img).
LoadWorker(k) ==
    /\ k \in 1..loader.recvs
    /\ \A j \in DOMAIN loader.finished : loader.finished[j] # k
    /\ loader' = [loader EXCEPT
                    !.chan[k] = <<FromBinary(loader.items[k])>>,
                    !.finished = Append(@, k)]
    /\ UNCHANGED <<runtimeVars, compVars, class, other, parseVars, ph, onclick, elem, interp>>

\* Faulty variant of LoadCollect: the image of any worker that has sent and
\* was not collected is pushed.
LoadCollect_AsFinished ==
    /\ loader.at = "collect"
    /\ IF Len(loader.vec) < loader.recvs
       THEN \E k \in 1..loader.recvs :
              /\ loader.chan[k] # <<>>
              /\ loader' = [loader EXCEPT !.vec = Append(@, loader.chan[k][1]),
                                          !.chan[k] = <<>>]
       ELSE loader' = [loader EXCEPT !.at = "returned"]
    /\ UNCHANGED <<runtimeVars, compVars, class, other, parseVars, ph, onclick, elem, interp>>

\* One round of the second loop: rx.recv() on the next receiver of the list
\* blocks until its worker has sent; the image is pushed to the vector.
\* After the last receiver the vector is returned.
LoadCollect ==
    /\ loader.at = "collect"
    /\ IF Len(loader.vec) < loader.recvs
       THEN LET k == Len(loader.vec) + 1 IN
              /\ loader.chan[k] # <<>>
              /\ loader' = [loader EXCEPT !.vec = Append(@, loader.chan[k][1]),
                                          !.chan[k] = <<>>]
       ELSE loader' = [loader EXCEPT !.at = "returned"]
    /\ UNCHANGED <<runtimeVars, compVars, class, other, parseVars, ph, onclick, elem, interp>>

\* --------------------------------------------------- TagName and elements
\* The tag names of nodes: the known ones, some of them in upper case, and
\* three tags that are not known.
NodeTags == {"a", "A", "canvas", "h4", "H4", "h5", "H5", "img", "IMG", "li",
             "p", "P", "span", "div", "DIV", "x"}
ElemIds == {"x", "a", "b"}

\* str::to_lowercase on the tags above.
ToLowercase(s) ==
    CASE s = "A" -> "a"
      [] s = "H4" -> "h4"
      [] s = "H5" -> "h5"
      [] s = "IMG" -> "img"
      [] s = "P" -> "p"
      [] s = "DIV" -> "div"
      [] OTHER -> s

\* impl From<&str> for TagName
TagNameFrom(s) ==
    LET l == ToLowercase(s) IN
    CASE l = "a" -> Tag("A")
      [] l = "canvas" -> Tag("Canvas")
      [] l = "h4" -> Tag("H4")
      [] l = "h5" -> Tag("H5")
      [] l = "img" -> Tag("Img")
      [] l = "li" -> Tag("Li")
      [] l = "p" -> Tag("P")
      [] l = "span" -> Tag("Span")
      [] OTHER -> UnknownTag(s)

\* TagName::new_impl: the struct that is boxed for each TagName.
NewImpl(tn, id) ==
    CASE tn.kind = "H5" -> [type |-> "H4", id |-> id, name |-> ""]
      [] tn.kind = "Unknown" -> [type |-> "Unknown", id |-> id, name |-> tn.name]
      [] OTHER -> [type |-> tn.kind, id |-> id, name |-> ""]

\* Element::tag_name: the macro elm_impl answers with the struct's own
\* name, Unknown answers with its id.
TagNameOf(el) ==
    IF el.type = "Unknown" THEN UnknownTag(el.id) ELSE Tag(el.type)

\* A node with the tag s is met.
ElemNode(s) ==
    /\ elem.at = "none"
    /\ elem' = [elem EXCEPT !.at = "node", !.tag = s]
    /\ UNCHANGED <<runtimeVars, compVars, class, other, parseVars, ph, onclick, loader, interp>>

\* TagName::from(tag).new_impl(view, id)
ElemNewImpl(id) ==
    /\ elem.at = "node"
    /\ elem' = [elem EXCEPT !.at = "built", !.struct = NewImpl(TagNameFrom(elem.tag), id)]
    /\ UNCHANGED <<runtimeVars, compVars, class, other, parseVars, ph, onclick, loader, interp>>

\* element.tag_name()
ElemTagName ==
    /\ elem.at = "built"
    /\ elem' = [elem EXCEPT !.at = "reported", !.reported = TagNameOf(elem.struct)]
    /\ UNCHANGED <<runtimeVars, compVars, class, other, parseVars, ph, onclick, loader, interp>>

\* ------------------------------------------ scripts with a string payload
\* The characters a payload is made of: a letter, the two quote characters
\* and the backslash.
Chars == {"a", "'", "\"", "\\"}
Quotes == {"'", "\""}

\* js_prefix_quotes: every character is copied; a quote character gets a
\* backslash pushed before it.
RECURSIVE js_prefix_quotes(_)
js_prefix_quotes(s) ==
    IF s = <<>> THEN <<>>
    ELSE (IF Head(s) \in Quotes THEN <<"\\", Head(s)>> ELSE <<Head(s)>>)
             \o js_prefix_quotes(Tail(s))

\* The caller spells a payload out before the call.
JsWrite(c) ==
    /\ interp.op = "none"
    /\ Len(interp.payload) < MaxChars
    /\ interp' = [interp EXCEPT !.payload = Append(@, c)]
    /\ UNCHANGED <<runtimeVars, compVars, class, other, parseVars, ph, onclick, loader, elem>>

\* Element::set_attribute(name, value): lit is what stands between the
\* single quotes of the third argument of setAttribute.
ElementSetAttribute ==
    /\ interp.op = "none"
    /\ interp' = [interp EXCEPT !.op = "set_attribute", !.lit = js_prefix_quotes(interp.payload)]
    /\ UNCHANGED <<runtimeVars, compVars, class, other, parseVars, ph, onclick, loader, elem>>

\* Element::append_inner_html(html): lit is what stands between the single
\* quotes after innerHTML +=.
ElementAppendInnerHtml ==
    /\ interp.op = "none"
    /\ interp' = [interp EXCEPT !.op = "append_inner_html", !.lit = js_prefix_quotes(interp.payload)]
    /\ UNCHANGED <<runtimeVars, compVars, class, other, parseVars, ph, onclick, loader, elem>>

\* RootComponent::add_component(component), when the base accepted the
\* component: lit is what stands between the single quotes after
\* i.innerHTML +=, which is html.to_string() of the component's markup as
\* it is.
RootAddComponentScript ==
    /\ interp.op = "none"
    /\ interp' = [interp EXCEPT !.op = "add_component", !.lit = interp.payload]
    /\ UNCHANGED <<runtimeVars, compVars, class, other, parseVars, ph, onclick, loader, elem>>

\* ------------------------------------------------------ events: OnClick
\* default_callback_fn(id): the text, written over several lines, of a call
\* of window.external.invoke with descriptor: id and args: ''.
DefaultCallbackFn(id) == AttrValue("invoke", id, TRUE, 2)

\* js_prefix_quotes: a backslash before every quote character, nothing else.
JsPrefixQuotes(v) == [v EXCEPT !.escaped = v.quotes]

\* The script of Element::set_attribute: the value stands between single
\* quotes in setAttribute(name, value).
SetAttributeScript(name, v) == [attr |-> name, value |-> JsPrefixQuotes(v)]

\* OnClick::remove_callback.  An unset event returns None.  Otherwise the
\* attribute is emptied and View::remove_callback is called with
\* callback_id, which stays as it was; callbacks.remove(&id).unwrap() panics
\* under the write guard when the id is not registered, which poisons the
\* lock.  With a poisoned lock no call gets as far as the registry.
RemoveCallback(e) ==
    /\ ~poisoned
    /\ wlock = Free
    /\ LET ev == onclick[e]
           sc == SetAttributeScript("onclick", AttrValue("", 0, FALSE, 0))
       IN IF ev.callback_id = <<>>
          THEN /\ onclick' = [onclick EXCEPT ![e] =
                                [ev EXCEPT !.last = "remove_callback",
                                           !.out = "None"]]
               /\ UNCHANGED <<callbacks, poisoned>>
          ELSE IF ev.callback_id[1] \in callbacks
          THEN /\ callbacks' = callbacks \ {ev.callback_id[1]}
               /\ onclick' = [onclick EXCEPT ![e] =
                                [ev EXCEPT !.script = sc,
                                           !.last = "remove_callback",
                                           !.out = "Some"]]
               /\ UNCHANGED poisoned
          ELSE /\ poisoned' = TRUE
               /\ onclick' = [onclick EXCEPT ![e] =
                                [ev EXCEPT !.script = sc,
                                           !.last = "remove_callback",
                                           !.out = "panic"]]
               /\ UNCHANGED callbacks
    /\ UNCHANGED <<pc, cur, wlock, clocks, compRegs, next_callback_id, reqRegs,
                   chans, queue, render>>
    /\ UNCHANGED <<compVars, class, other, parseVars, ph, libVars>>

\* OnClick::set_callback.  A set event first goes through remove_callback
\* (and panics where that panics); then View::add_callback registers the
\* callback under the counter, set_attribute sends the script with
\* default_callback_fn(id), and callback_id becomes Some(id).
SetCallback(e) ==
    /\ ~poisoned
    /\ wlock = Free
    /\ next_callback_id < MaxSets
    /\ LET ev == onclick[e]
           id == next_callback_id
       IN IF ev.callback_id # <<>> /\ ev.callback_id[1] \notin callbacks
          THEN /\ poisoned' = TRUE
               /\ onclick' = [onclick EXCEPT ![e] =
                                [ev EXCEPT !.script =
                                               SetAttributeScript("onclick",
                                                   AttrValue("", 0, FALSE, 0)),
                                           !.last = "set_callback",
                                           !.out = "panic"]]
               /\ UNCHANGED <<callbacks, next_callback_id>>
          ELSE /\ callbacks' = (callbacks \ {ev.callback_id[k] :
                                                k \in DOMAIN ev.callback_id})
                                 \cup {id}
               /\ next_callback_id' = id + 1
               /\ onclick' = [onclick EXCEPT ![e] =
                                [callback_id |-> <<id>>,
                                 script |-> SetAttributeScript("onclick",
                                                DefaultCallbackFn(id)),
                                 mine |-> ev.mine \cup {id},
                                 last |-> "set_callback",
                                 out |-> "ok"]]
               /\ UNCHANGED poisoned
    /\ UNCHANGED <<pc, cur, wlock, clocks, compRegs, reqRegs, chans, queue,
                   render>>
    /\ UNCHANGED <<compVars, class, other, parseVars, ph, libVars>>

\* What the text of default_callback_fn posts through
\* window.external.invoke when the surface runs it: JSON.stringify of an
\* object with descriptor and args, and no incmd.
SnippetMessage(v) == [incmd |-> "", id |-> v.descriptor, val |-> ""]

\* serde_json::from_str::<InCmd>(arg): InCmd is tagged by "incmd" with the
\* variants callback, existenceTest and attribute; any other text is an Err.
Decode(m) ==
    IF m.incmd \in {"callback", "existenceTest", "attribute"}
    THEN [ok |-> TRUE, msg |-> m]
    ELSE [ok |-> FALSE, msg |-> NoMsg]

\* The user clicks the element whose onclick holds the text that
\* set_callback sent; the surface runs the text and calls the invoke handler
\* with what it posts.  The handler takes the write guard and does
\* serde_json::from_str(arg).unwrap(), which panics on an Err and poisons the
\* lock; a decoded callback message calls the callback registered under its
\* descriptor, if there is one.
Click(e) ==
    /\ ~poisoned
    /\ wlock = Free
    /\ onclick[e].script.value.text = "invoke"
    /\ LET d == Decode(SnippetMessage(onclick[e].script.value))
           res == IF ~d.ok THEN "panic"
                  ELSE IF d.msg.incmd = "callback" /\ d.msg.id \in callbacks
                       THEN "called"
                  ELSE "nocallback"
       IN /\ onclick' = [onclick EXCEPT ![e] =
                           [@ EXCEPT !.last = "click", !.out = res]]
          /\ poisoned' = (res = "panic")
    /\ UNCHANGED <<pc, cur, wlock, clocks, regs, chans, queue, render>>
    /\ UNCHANGED <<compVars, class, other, parseVars, ph, libVars>>

\* ------------------------------------------- Placeholder: spelled names
\* The prefix and the length of generate_name.
Prefix == <<"a", "u", "t", "o", "g", "e", "n">>
NameLen == 15

\* OutputCharsType::LatinAlphabetAndNumeric with lower and upper case.
LowerCase == {"a", "b", "c", "d", "e", "f", "g", "h", "i", "j", "k", "l", "m",
              "n", "o", "p", "q", "r", "s", "t", "u", "v", "w", "x", "y", "z"}
UpperCase == {"A", "B", "C", "D", "E", "F", "G", "H", "I", "J", "K", "L", "M",
              "N", "O", "P", "Q", "R", "S", "T", "U", "V", "W", "X", "Y", "Z"}
Digits == {"0", "1", "2", "3", "4", "5", "6", "7", "8", "9"}

\* gen_random_string(len, oct): some string of len characters of the
\* alphabet.  The strings drawn here are those of the characters a, Z and 7
\* whose second half repeats the first.
RandomChars == {"a", "Z", "7"}
RandomStrings(len) ==
    {r \in [1..len -> RandomChars] :
        \A k \in 1..len : 2 * k <= len => r[k + len \div 2] = r[k]}

\* Names a caller sets by hand.
SpelledNames == {<<"l", "b", "l">>, <<"n", "o", "t", "e", "-", "1">>}

\* Placeholder::set_name on the spelled placeholder.
PhSetName(n) ==
    /\ ph' = Placeholder(<<n>>, <<>>, 0)
    /\ UNCHANGED <<runtimeVars, compVars, class, other, parseVars, onclick, libVars>>

\* Placeholder::remove_name on the spelled placeholder.
PhRemoveName ==
    /\ ph' = Placeholder(<<>>, <<>>, 0)
    /\ UNCHANGED <<runtimeVars, compVars, class, other, parseVars, onclick, libVars>>

\* Faulty variant of PhGenerateName: the string is pushed onto the name that
\* is set instead of a new String.
PhGenerateName_Append(r) ==
    LET s == (IF ph.new = <<>> THEN <<>> ELSE ph.new[1]) \o Prefix \o r IN
    /\ Len(r) = NameLen - Len(Prefix)
    /\ ph' = Placeholder(<<s>>, <<s>>, IF ph.calls = 0 THEN 1 ELSE 2)
    /\ UNCHANGED <<runtimeVars, compVars, class, other, parseVars, onclick, libVars>>

\* Placeholder::generate_name with the random string r: a new String gets
\* the prefix, then r; set_name stores it; name().unwrap() is returned.
PhGenerateName(r) ==
    LET s == Prefix \o r IN
    /\ Len(r) = NameLen - Len(Prefix)
    /\ ph' = Placeholder(<<s>>, <<s>>, IF ph.calls = 0 THEN 1 ELSE 2)
    /\ UNCHANGED <<runtimeVars, compVars, class, other, parseVars, onclick, libVars>>

\* ------------------------------------------------ Class: parsing markup
\* A node of the markup: its depth below the document root, its id (None
\* without an id attribute), and whether its class attribute holds
\* COMPONENT_MARK and SKIP_ELEMENT_MARK.
DocOrder == <<"x", "a", "b">>
DocIds == {DocOrder[k] : k \in DOMAIN DocOrder}
DocNodes ==
    [depth : 1..MaxNodes, id : DocIds \cup {None}, comp : BOOLEAN, skip : BOOLEAN]

\* The last node of the subtree of node i.
End(d, i) ==
    CHOOSE e \in i..Len(d) :
        /\ \A k \in (i + 1)..e : d[k].depth > d[i].depth
        /\ e = Len(d) \/ d[e + 1].depth <= d[i].depth

\* has_skips of try_one_from_node: the node or one below it has the skip mark.
HasSkips(d, i) == \E j \in i..End(d, i) : d[j].skip

\* A children list that spans the nodes j..e: the positions of its children.
RECURSIVE ChildList(_, _, _)
ChildList(d, j, e) ==
    IF j > e THEN <<>> ELSE <<j>> \o ChildList(d, End(d, j) + 1, e)

\* The first loop of clean: the indices, in rising order, of the children
\* whose class attribute holds the skip mark.
Skiplist(d, ch) ==
    LET idx == [k \in 1..Len(ch) |-> k]
        IsSkip(k) == d[ch[k]].skip
    IN  SelectSeq(idx, IsSkip)

\* Faulty variant of RemoveAll: the indices are taken from the first to the
\* last, so every removal shifts the later ones; an index past the end
\* removes nothing.
RECURSIVE RemoveAll_Forward(_, _)
RemoveAll_Forward(ch, sl) ==
    IF sl = <<>> THEN ch
    ELSE LET i == sl[1] IN
         RemoveAll_Forward(IF i > Len(ch) THEN ch
                           ELSE SubSeq(ch, 1, i - 1) \o SubSeq(ch, i + 1, Len(ch)),
                           Tail(sl))

\* The second loop of clean: iter.next_back() takes the indices from the
\* last to the first and children.remove(i) takes the child out.
RECURSIVE RemoveAll(_, _)
RemoveAll(ch, sl) ==
    IF sl = <<>> THEN ch
    ELSE LET i == sl[Len(sl)] IN
         RemoveAll(SubSeq(ch, 1, i - 1) \o SubSeq(ch, i + 1, Len(ch)),
                   SubSeq(sl, 1, Len(sl) - 1))

\* Faulty variant of Clean: a marked node is removed, the nodes below it stay.
RECURSIVE Clean_NodeOnly(_, _, _)
Clean_NodeOnly(d, j, e) ==
    IF j > e THEN <<>>
    ELSE IF d[j].skip THEN Clean_NodeOnly(d, j + 1, e)
    ELSE <<d[j]>> \o Clean_NodeOnly(d, j + 1, e)

\* clean of try_one_from_node on the children list that spans the nodes
\* j..e: the indices of the children with the skip mark are collected, these
\* children are removed from the last index to the first, and clean runs on
\* the children list of every child that is left.
RECURSIVE Clean(_, _, _)
Clean(d, j, e) ==
    LET ch == ChildList(d, j, e)
        left == RemoveAll(ch, Skiplist(d, ch))
        RECURSIVE Each(_)
        Each(l) ==
            IF l = <<>> THEN <<>>
            ELSE <<d[l[1]]>> \o Clean(d, l[1] + 1, End(d, l[1])) \o Each(Tail(l))
    IN  Each(left)

\* The placeholders of try_one_from_node: one for every id of the tree, and
\* the class node's.
ClassPlaceholders(tree, name) ==
    [p \in ({tree[k].id : k \in DOMAIN tree} \ {None}) \cup {name} |-> None]

\* Faulty variant of TryOneFromNode: the ids are fetched from the whole
\* document, not from the tree of the node.
TryOneFromNode_WholeDoc(d, i) ==
    LET tree == IF HasSkips(d, i) THEN Clean(d, i, End(d, i))
                ELSE SubSeq(d, i, End(d, i))
    IN  IF tree = <<>> THEN [out |-> "panic", class |-> NoClass]
        ELSE IF ~tree[1].comp \/ tree[1].id = None
             THEN [out |-> "None", class |-> NoClass]
        ELSE [out |-> "Some",
              class |-> [name |-> tree[1].id, html |-> tree,
                         placeholders |-> ClassPlaceholders(d, tree[1].id)]]

\* Class::try_one_from_node of node i.  The node is wrapped into a root and
\* cleaned; children().iter().next().unwrap() panics when nothing is left;
\* a first node without the component mark or without an id gives None.
TryOneFromNode(d, i) ==
    LET tree == IF HasSkips(d, i) THEN Clean(d, i, End(d, i))
                ELSE SubSeq(d, i, End(d, i))
    IN  IF tree = <<>> THEN [out |-> "panic", class |-> NoClass]
        ELSE IF ~tree[1].comp \/ tree[1].id = None
             THEN [out |-> "None", class |-> NoClass]
        ELSE [out |-> "Some",
              class |-> [name |-> tree[1].id, html |-> tree,
                         placeholders |-> ClassPlaceholders(tree, tree[1].id)]]

\* The loop of Class::try_from_html over the children of the document root,
\* from node j on: the first class that try_one_from_node makes.
RECURSIVE TryFrom(_, _)
TryFrom(d, j) ==
    IF j > Len(d) THEN [out |-> "None", class |-> NoClass]
    ELSE IF d[j].depth # 1 THEN TryFrom(d, j + 1)
    ELSE LET r == TryOneFromNode(d, j) IN
         IF r.out = "None" THEN TryFrom(d, j + 1) ELSE r

\* Faulty variant of InsertClass: a name that is taken keeps its class.
InsertClass_Keep(map, cl) ==
    IF cl.name \in DOMAIN map THEN map ELSE Insert(map, cl.name, cl)

\* map.insert(class.name.clone(), class) of all_from_html.
InsertClass(map, cl) == Insert(map, cl.name, cl)

\* The loop of Class::all_from_html over the nodes whose class attribute
\* holds the component mark, in document order, from node j on:
\* try_one_from_node(node).unwrap(), then map.insert.
RECURSIVE AllFrom(_, _, _)
AllFrom(d, j, map) ==
    IF j > Len(d) THEN [out |-> "map", classes |-> map]
    ELSE IF ~d[j].comp THEN AllFrom(d, j + 1, map)
    ELSE LET r == TryOneFromNode(d, j) IN
         IF r.out # "Some" THEN [out |-> "panic", classes |-> EmptyMap]
         ELSE AllFrom(d, j + 1, InsertClass(map, r.class))

\* Markup is written up to the names of its ids: a node has no id, an id
\* used before it, or the first id of DocOrder not used yet.
NextId(d, id) ==
    \/ id = None
    \/ \E k \in DOMAIN DocOrder :
          /\ DocOrder[k] = id
          /\ \A m \in 1..(k - 1) : \E j \in DOMAIN d : d[j].id = DocOrder[m]

\* The caller writes one more node of the markup it will hand to the parser.
WriteMarkup(n) ==
    /\ parsed = NoParse
    /\ Len(doc) < MaxNodes
    /\ n.depth <= (IF doc = <<>> THEN 1 ELSE doc[Len(doc)].depth + 1)
    /\ NextId(doc, n.id)
    /\ doc' = Append(doc, n)
    /\ UNCHANGED <<runtimeVars, compVars, class, other, parsed, ph, onclick, libVars>>

\* Class::try_from_html(doc); markup without a node parses to None.
TryFromHtml ==
    /\ LET r == TryFrom(doc, 1) IN
        parsed' = Parsed("try_from_html", r.out,
                         IF r.out = "Some" THEN InsertClass(EmptyMap, r.class)
                         ELSE EmptyMap)
    /\ UNCHANGED <<runtimeVars, compVars, class, other, doc, ph, onclick, libVars>>

\* Class::all_from_html(doc); markup without a node gives the empty map.
AllFromHtml ==
    /\ LET r == AllFrom(doc, 1, EmptyMap) IN
        parsed' = Parsed("all_from_html", r.out, r.classes)
    /\ UNCHANGED <<runtimeVars, compVars, class, other, doc, ph, onclick, libVars>>

\* ------------------------------------------------- properties of parsing
\* Node i is above node j in the markup.
Above(d, i, j) == i < j /\ \A k \in (i + 1)..j : d[k].depth > d[i].depth

\* Node j is cut out by the skip mark: it has the mark, or a node above it has.
Cut(d, j) == d[j].skip \/ \E k \in DOMAIN d : Above(d, k, j) /\ d[k].skip

\* The nodes with the component mark.
Marked(d) == {i \in DOMAIN d : d[i].comp}

\* C23: for markup without skip marks whose only node with the component
\* mark has the id X, class construction (try_from_html when the node is a
\* child of the document root, all_from_html anywhere) gives exactly the
\* Class named X; its placeholders are X and the ids of the nodes below the
\* node, each unassigned, so no id of a node outside the subtree is a key.
C23_ClassOfOneRoot ==
    \A i \in DOMAIN doc :
        (/\ parsed.op # "none"
         /\ Marked(doc) = {i}
         /\ doc[i].id # None
         /\ \A j \in DOMAIN doc : ~doc[j].skip
         /\ parsed.op = "try_from_html" => doc[i].depth = 1)
        => /\ parsed.out \in {"Some", "map"}
           /\ DOMAIN parsed.classes = {doc[i].id}
           /\ LET cl == parsed.classes[doc[i].id] IN
               /\ cl.name = doc[i].id
               /\ DOMAIN cl.placeholders =
                      {doc[i].id} \cup
                      ({doc[j].id : j \in {k \in DOMAIN doc : Above(doc, i, k)}}
                          \ {None})
               /\ \A p \in DOMAIN cl.placeholders : cl.placeholders[p] = None

\* Witness for C23: the root x has a node a below it and a node b beside it;
\* the class x is made with the placeholders x and a.
C23_Witness ==
    /\ parsed.op = "try_from_html"
    /\ Len(doc) = 3
    /\ doc[1] = [depth |-> 1, id |-> "x", comp |-> TRUE, skip |-> FALSE]
    /\ doc[2] = [depth |-> 2, id |-> "a", comp |-> FALSE, skip |-> FALSE]
    /\ doc[3] = [depth |-> 1, id |-> "b", comp |-> FALSE, skip |-> FALSE]
    /\ parsed.out = "Some"
    /\ DOMAIN parsed.classes["x"].placeholders = {"x", "a"}

\* No id is written on two nodes of the markup.
UniqueIds(d) ==
    \A j, k \in DOMAIN d : j # k /\ d[j].id # None => d[j].id # d[k].id

\* Node j is a node below the node i that carries the skip mark, or is below
\* such a node.
CutBelow(d, i, j) ==
    \E k \in DOMAIN d :
        /\ Above(d, i, k)
        /\ d[k].skip
        /\ k = j \/ Above(d, k, j)

RECURSIVE Kept(_, _, _)
Kept(d, i, j) ==
    IF j > Len(d) THEN <<>>
    ELSE (IF (j = i \/ Above(d, i, j)) /\ ~CutBelow(d, i, j) THEN <<d[j]>>
          ELSE <<>>) \o Kept(d, i, j + 1)

\* C25: when all_from_html returns, each name of a node with the component
\* mark has exactly one class in the map, and that class is built from the
\* last node in document order with that name: its tree is that node's
\* (without what the skip mark cuts out).
C25_LaterRootWins ==
    (parsed.op = "all_from_html" /\ parsed.out = "map")
    => /\ DOMAIN parsed.classes = {doc[i].id : i \in Marked(doc)}
       /\ \A i \in Marked(doc) :
            (\A k \in Marked(doc) : doc[k].id = doc[i].id => k <= i)
            => /\ parsed.classes[doc[i].id].name = doc[i].id
               /\ parsed.classes[doc[i].id].html = Kept(doc, i, 1)

\* Witness for C25: two roots named x, the second with a node a below it;
\* the class x of the map has the tree and the placeholder a of the second.
C25_Witness ==
    /\ parsed.op = "all_from_html"
    /\ Len(doc) = 3
    /\ doc[1] = [depth |-> 1, id |-> "x", comp |-> TRUE, skip |-> FALSE]
    /\ doc[2] = [depth |-> 1, id |-> "x", comp |-> TRUE, skip |-> FALSE]
    /\ doc[3] = [depth |-> 2, id |-> "a", comp |-> FALSE, skip |-> FALSE]
    /\ DOMAIN parsed.classes = {"x"}
    /\ Len(parsed.classes["x"].html) = 2
    /\ "a" \in DOMAIN parsed.classes["x"].placeholders

\* C36: clean, run by a parsing function on the tree of a node that holds a
\* skip mark, removes each node with the mark together with everything below
\* it, at any depth and for any number of marked children of one node, and
\* removes nothing else: what is left are the nodes of the tree that no mark
\* cuts out, in document order.
C36_CleanPrunesMarked ==
    \A i \in DOMAIN doc :
        (parsed.op # "none" /\ HasSkips(doc, i)) =>
            Clean(doc, i, End(doc, i)) =
                (IF doc[i].skip THEN <<>> ELSE Kept(doc, i, 1))

\* Two marked children of one node; the class keeps the node alone.
C36_Witness ==
    /\ parsed.op = "try_from_html"
    /\ Len(doc) = 3
    /\ doc[1] = [depth |-> 1, id |-> "x", comp |-> TRUE, skip |-> FALSE]
    /\ doc[2] = [depth |-> 2, id |-> "a", comp |-> FALSE, skip |-> TRUE]
    /\ doc[3] = [depth |-> 2, id |-> "b", comp |-> FALSE, skip |-> TRUE]
    /\ DOMAIN parsed.classes = {"x"}
    /\ parsed.classes["x"].html = <<doc[1]>>

\* C26: for markup without skip marks, neither parsing function faults: a
\* node without the component mark or without an id gives no class, and the
\* call returns.
C26_NoFaultWithoutMarkOrId ==
    (parsed.op # "none" /\ \A j \in DOMAIN doc : ~doc[j].skip)
    => parsed.out # "panic"

\* C38: the reply channel of a request is in the pending-requests registry
\* before the request's script is handed to the rendering thread: every
\* query script that waits in the command channel, and the one the rendering
\* thread is running (the earliest moment its reply can be posted), has its
\* request registered with the channel of the caller that sent it.  So the
\* reply of a request is never dispatched with the request not yet
\* registered.
C38_RegisteredBeforeSent ==
    LET IsQuery(c) == c.kind = "Eval" /\ c.sender # None /\ c.js.val = "?"
        Registered(c) == c.js.id \in DOMAIN requests /\ requests[c.js.id] = c.sender
    IN  /\ \A k \in DOMAIN cmdQueue : IsQuery(cmdQueue[k]) => Registered(cmdQueue[k])
        /\ IsQuery(rcmd) => Registered(rcmd)

\* The reply of a query is dispatched: the caller waits on its channel and
\* the request is in the registry.
C38_Witness ==
    /\ rpc = "h_run"
    /\ rmsg.incmd = "attribute"
    /\ rmsg.id \in DOMAIN requests
    /\ pc[requests[rmsg.id]] = "q_recv"
    /\ cur[requests[rmsg.id]].id = rmsg.id

\* ------------------------------------------------------- specification
Next ==
    \/ \E t \in Threads, js \in UserScripts : Eval(t, js)
    \/ \E t \in Threads : InjectCss(t)
    \/ \E t \in Threads, js \in UserScripts : EvalWaitSend(t, js)
    \/ \E t \in Threads : EvalWaitRecv(t)
    \/ \E t \in Threads, c \in Comps, k \in QueryKinds : QStart(t, c, k)
    \/ \E t \in Threads : QNewRequestLock(t)
    \/ \E t \in Threads : QNewRequest(t)
    \/ \E t \in Threads : QEvalLock(t)
    \/ \E t \in Threads : QEvalInsert(t)
    \/ \E t \in Threads : QEvalSend(t)
    \/ \E t \in Threads : QEvalRecv(t)
    \/ \E t \in Threads : QRecv(t)
    \/ \E t \in Threads, k \in ComponentKinds : AddComponentLock(t, k)
    \/ \E t \in Threads : AddComponentInsert(t)
    \/ \E t \in Threads : RootComponent(t)
    \/ \E t \in Threads : ComponentHandleNew(t)
    \/ \E t \in Threads : AddCallbackLock(t)
    \/ \E t \in Threads : AddCallback(t)
    \/ RRecv
    \/ RHandlerEnter
    \/ RHandlerLock
    \/ RHandlerRun
    \/ RCallbackWrite
    \/ RReturn

Spec == Init /\ [][Next]_vars

\* One caller that customizes a builder, builds the component and uses it.
CompNext ==
    \/ \E p \in PlaceholderIds, n \in Names : SetName(p, n)
    \/ \E p \in PlaceholderIds : RemoveName(p)
    \/ BuildStart
    \/ \E p \in PlaceholderIds : BuildStep(p)
    \/ \E child \in ChildElems : AddChild(child)
    \/ \E id \in ChildIds : RemoveChild(id)
    \/ \E id \in ChildIds : ContainsChild(id)
    \/ \E c \in Containers, h \in HandleIds : RemoveComponent(c, h)

CompSpec == Init /\ [][CompNext]_vars

\* Two builders of one class, each customized, built and then mutated.
InstNext ==
    \/ \E p \in PlaceholderIds, n \in Names : SetName(p, n)
    \/ \E p \in PlaceholderIds : RemoveName(p)
    \/ BuildStart
    \/ \E p \in PlaceholderIds : BuildStep(p)
    \/ \E p \in PlaceholderIds, n \in GeneratedNames : GenerateName(p, n)
    \/ \E i \in MutatedNodes, v \in MutatedIds : MutateHtml(i, v)
    \/ OtherNew
    \/ \E p \in PlaceholderIds, n \in Names : OtherSetName(p, n)
    \/ \E o \in Orders : OtherBuild(o)
    \/ \E i \in MutatedNodes, v \in MutatedIds : OtherMutateHtml(i, v)

InstSpec == Init /\ [][InstNext]_vars

\* Markup is written and handed to the two parsing functions of Class.
ParseNext ==
    \/ \E n \in DocNodes : WriteMarkup(n)
    \/ TryFromHtml
    \/ AllFromHtml

ParseSpec == Init /\ [][ParseNext]_vars

\* The calls on one Placeholder whose names are spelled out.
NameNext ==
    \/ \E n \in SpelledNames : PhSetName(n)
    \/ PhRemoveName
    \/ \E r \in RandomStrings(NameLen - Len(Prefix)) : PhGenerateName(r)

NameSpec == Init /\ [][NameNext]_vars

\* The calls on the OnClick events of two elements, and clicks on them.
EventNext ==
    \/ \E e \in Events : SetCallback(e)
    \/ \E e \in Events : RemoveCallback(e)
    \/ \E e \in Events : Click(e)

EventSpec == Init /\ [][EventNext]_vars

\* load_all with its worker threads.
LoadNext ==
    \/ \E item \in LoadItems : LoadWrite(item)
    \/ LoadAll
    \/ LoadSpawn
    \/ \E k \in 1..MaxItems : LoadWorker(k)
    \/ LoadCollect

LoadSpec == Init /\ [][LoadNext]_vars

\* The scripts that carry a string payload.
JsNext ==
    \/ \E c \in Chars : JsWrite(c)
    \/ ElementSetAttribute
    \/ ElementAppendInnerHtml
    \/ RootAddComponentScript

JsSpec == Init /\ [][JsNext]_vars

\* The elements made from tag names.
ElemNext ==
    \/ \E s \in NodeTags : ElemNode(s)
    \/ \E id \in ElemIds : ElemNewImpl(id)
    \/ ElemTagName

ElemSpec == Init /\ [][ElemNext]_vars

\* ----------------------------------------------- properties of spelt names
\* C27: when generate_name returns, the name that is set is the string it
\* returned, of exactly 15 characters: "autogen", then 8 characters that are
\* upper-case letters, lower-case letters or digits.  This holds for a call
\* that follows another call of generate_name: the name is replaced.
C27_GeneratedName ==
    ph.ret # <<>>
    => /\ ph.new = ph.ret
       /\ Len(ph.new[1]) = 15
       /\ SubSeq(ph.new[1], 1, 7) = <<"a", "u", "t", "o", "g", "e", "n">>
       /\ \A k \in 8..15 :
            ph.new[1][k] \in LowerCase \cup UpperCase \cup Digits

\* Witness for C27: two calls of generate_name in a row; the name is one
\* autogen name with letters of both cases and a digit.
C27_Witness ==
    /\ ph.calls = 2
    /\ ph.new = <<Prefix \o <<"a", "Z", "7", "a", "a", "Z", "7", "a">>>>
    /\ ph.ret = ph.new

\* ------------------------------------------------------------- properties
IsReply(m) == m.incmd \in {"existenceTest", "attribute"}
ReplyValue(m) == IF m.incmd = "existenceTest" THEN BoolValue(m.val) ELSE StrValue(m.val)
InQuery(t) == cur[t].op = "query"
\* The step in which the invoke handler handles rmsg.
HandlerStep == rpc = "h_run" /\ rpc' # rpc

\* C1: once RequestBuilder::eval has returned from a failed script
\* evaluation, the request is no longer in the pending-requests registry, no
\* value was put on its reply channel, no Sender of the channel is left, and
\* the caller's recv reports the channel closed instead of blocking.
C1_AbandonedRequestClosed ==
    \A t \in Threads :
        (pc[t] = "q_recv" /\ cur[t].err) =>
            /\ cur[t].id \notin DOMAIN requests
            /\ rxbuf[t] = <<>>
            /\ ~SenderAlive(t)
            /\ RecvOutcome(t) = "closed"

C1_Witness == \E t \in Threads : pc[t] = "q_recv" /\ cur[t].err

\* C2: no reachable state has a caller that holds the runtime's write lock
\* inside RequestBuilder::eval, waiting for the rendering thread's result,
\* while the rendering thread's invoke handler waits for that lock.
C2_NoLockCycle ==
    ~ \E t \in Threads :
        /\ InQuery(t)
        /\ pc[t] = "q_evw_recv"
        /\ wlock = t
        /\ evalRes[t] = None
        /\ rpc = "h_lock"

\* C3: a thread that queries one component never waits for a lock that a
\* thread querying a different component holds while that thread waits for
\* the rendering thread.
C3_DifferentComponentsDoNotBlock ==
    \A t, u \in Threads :
        (t # u /\ InQuery(t) /\ InQuery(u) /\ cur[t].comp # cur[u].comp) =>
            ~ (/\ pc[t] \in {"q_newreq_lock", "q_eval_lock"}
               /\ wlock = u
               /\ pc[u] = "q_evw_recv")

\* C4: a reply whose id is pending puts its value on that request's reply
\* channel and removes the entry; no reply channel ever holds more than one
\* value, and a reply for an id that was issued and is no longer pending puts
\* nothing on any channel.
C4_PendingReplyResolvedOnce ==
    [][/\ (HandlerStep /\ IsReply(rmsg) /\ rmsg.id \in DOMAIN requests) =>
            /\ rxbuf' = [rxbuf EXCEPT ![requests[rmsg.id]] =
                                         Append(@, ReplyValue(rmsg))]
            /\ DOMAIN requests' = DOMAIN requests \ {rmsg.id}
       /\ (HandlerStep /\ IsReply(rmsg) /\ rmsg.id \notin DOMAIN requests
             /\ rmsg.id < next_request_id) => rxbuf' = rxbuf
       /\ \A t \in Threads : Len(rxbuf'[t]) <= 1
      ]_vars

\* A second reply for request id was ignored while the first reply's value
\* is on the caller's channel.
C4_Witness ==
    /\ hdone = "ignored"
    /\ \E t \in Threads :
        /\ pc[t] = "q_recv"
        /\ cur[t].id = rmsg.id
        /\ Len(rxbuf[t]) = 1

\* C5: the handler's step for a reply whose id is not in the
\* pending-requests registry changes no registry, no id counter and no reply
\* channel, and moves no caller.
C5_UnknownReplyIgnored ==
    [][(HandlerStep /\ IsReply(rmsg) /\ rmsg.id \notin DOMAIN requests) =>
            UNCHANGED <<regs, rxbuf, evalRes, pc, cur>>
      ]_vars

\* A reply for an id that is not pending was handled while another request
\* was pending and a callback was registered.
C5_Witness ==
    /\ hdone = "ignored"
    /\ DOMAIN requests # {}
    /\ callbacks # {}

\* C6: no query panics when its request was abandoned.
C6_AbandonedQueryDoesNotPanic ==
    \A t \in Threads : ~ (pc[t] = "panicked" /\ InQuery(t) /\ cur[t].err)

\* C7: the rendering thread takes up one command at a time, and the
\* commands it takes up are the commands sent, in the order sent.
C7_ExecutedInSendOrder ==
    [][executed' # executed =>
            /\ rpc = "idle"
            /\ rpc' = "webview"
            /\ executed' = executed + 1
            /\ rcmd'.seq = executed'
      ]_vars

C7_Witness == executed = 2 /\ rpc = "webview" /\ rcmd.kind = "InjectCss"

\* C8: a step of a caller thread changes nothing on the rendering thread's
\* side (the command in execution, the surface's posted messages, the
\* handler); it leaves the command channel alone or appends one command.
C8_OnlyRenderThreadTouchesSurface ==
    [][(pc' # pc \/ sent' # sent) =>
            /\ UNCHANGED <<executed, rpc, rcmd, rmsg, inbox, hdone>>
            /\ \/ cmdQueue' = cmdQueue
               \/ /\ Len(cmdQueue') = Len(cmdQueue) + 1
                  /\ SubSeq(cmdQueue', 1, Len(cmdQueue)) = cmdQueue
      ]_vars

\* A caller blocks in eval_wait while the rendering thread runs its script.
C8_Witness ==
    \E t \in Threads :
        /\ pc[t] = "q_evw_recv"
        /\ rpc = "webview"
        /\ rcmd.sender = t

C10_RootRegistered ==
    /\ ROOT_COMPONENT_ID \in DOMAIN components
    /\ components[ROOT_COMPONENT_ID] = "root"

\* ------------------------------------------- properties of the components
\* The step in which the component operation op returned.
Did(op) == ret'.op = op /\ (ret' # ret \/ compVars' # compVars)

\* C15: add_child with an element whose identifier is already a key of
\* elements answers AlreadyPresent and leaves elements as it was; otherwise
\* it answers Ok, the element is stored under its identifier, every other
\* entry is kept, and contains_child finds the identifier.
C15_AddChild ==
    [][Did("add_child") =>
        LET id == ret'.arg IN
        IF id \in DOMAIN elements
        THEN ret'.val = "AlreadyPresent" /\ elements' = elements
        ELSE /\ ret'.val = "Ok"
             /\ DOMAIN elements' = DOMAIN elements \cup {id}
             /\ elements'[id] \in ChildElems /\ elements'[id].id = id
             /\ \A k \in DOMAIN elements : elements'[k] = elements[k]]_vars

\* "pic" was inserted, and the add_child that just returned was refused.
C15_Witness ==
    /\ ret.op = "add_child" /\ ret.val = "AlreadyPresent"
    /\ "pic" \in added /\ "pic" \in DOMAIN elements

\* C16: a built component's elements always holds an entry under the class
\* name, the component's own root element, so that self_element resolves.
C16_SelfElementPresent ==
    phase = "built" => ClassName \in DOMAIN elements

\* C17, as stated: the keys of elements are placeholders that were assigned
\* a name, or identifiers add_child inserted.
C17_KeysOfNamedPlaceholders ==
    phase = "built" =>
        DOMAIN elements \subseteq
            {p \in PlaceholderIds : placeholders[p] # None} \cup added

\* C17, amended: the keys of elements are placeholder identifiers of the
\* class, assigned a name or not, or identifiers add_child inserted; when
\* build returns they are exactly the placeholder identifiers.
C17_KeysOfPlaceholders ==
    phase = "built" =>
        /\ DOMAIN elements \subseteq PlaceholderIds \cup added
        /\ ret = NoRet => DOMAIN elements = PlaceholderIds

\* A placeholder without a name has its entry next to one add_child inserted.
C17_Witness ==
    /\ phase = "built"
    /\ \E p \in PlaceholderIds : placeholders[p] = None /\ p \in DOMAIN elements
    /\ \E p \in PlaceholderIds : placeholders[p] # None /\ p \in DOMAIN elements
    /\ "pic" \in added /\ "pic" \in DOMAIN elements

\* C18: when build has returned, every node that had a placeholder's
\* original id in the template carries that placeholder's assigned name, or
\* "" when it has none, and every other node is as in the template.
C18_NodesCarryAssignedIds ==
    phase = "built" =>
        \A i \in DOMAIN Template :
            /\ html[i].tag = Template[i].tag
            /\ html[i].id =
                    IF Template[i].id \in PlaceholderIds
                    THEN IF placeholders[Template[i].id] = None THEN ""
                         ELSE placeholders[Template[i].id]
                    ELSE Template[i].id

\* C19: when build returns, every placeholder's element is stored under the
\* placeholder's original id, and the id the element renders is the name
\* assigned to the placeholder ("" when it has none).
C19_KeyedByOriginalId ==
    (phase = "built" /\ ret = NoRet) =>
        /\ DOMAIN elements = PlaceholderIds
        /\ \A p \in PlaceholderIds :
              elements[p].id = IF placeholders[p] = None THEN "" ELSE placeholders[p]

\* Key "label" is bound to an element whose id is "lbl42".
C19_Witness ==
    /\ phase = "built" /\ ret = NoRet
    /\ placeholders["label"] = "lbl42"
    /\ "label" \in DOMAIN elements /\ elements["label"].id = "lbl42"
    /\ "lbl42" \notin DOMAIN elements

\* C20, as stated: a component built without a name assigned to the class
\* node's placeholder has the class name as its name.
C20_NameIsClassName ==
    (phase = "built" /\ placeholders[ClassName] = None) => Name = ClassName

\* C20, amended: a component built without a name assigned to the class
\* node's placeholder has the empty name.
C20_NameIsEmpty ==
    (phase = "built" /\ placeholders[ClassName] = None) => Name = ""

\* The example of the specification: only "label" was renamed, to "lbl42".
C20_Witness ==
    /\ phase = "built" /\ ret = NoRet
    /\ placeholders = [p \in PlaceholderIds |->
                          IF p = "label" THEN "lbl42" ELSE None]
    /\ Name = ""

AddComponentOver(t) ==
    cur[t].op = "add_component" /\ pc[t] \notin {"ac_insert", "handle_new"}

\* C11: once add_component is over, the registry holds the component under
\* the id it was given and the handle of that id is in the children set of
\* the container it was added to.
C11_AddedComponentIsChild ==
    \A t \in Threads : AddComponentOver(t) =>
        /\ cur[t].id \in DOMAIN components
        /\ cur[t].id \in children[cur[t].comp]

\* C13: once add_component of the RootComponent is over, the component is
\* registered and a command of the root was sent after the registration.
C13_RootAddEvaluates ==
    \A t \in Threads : (AddComponentOver(t) /\ cur[t].comp = "root") =>
        /\ cur[t].id \in DOMAIN components
        /\ sent > 0

\* C33: the handler's step for a callback message with descriptor d calls
\* the callback when one is registered under d, once for the message; when
\* none is registered it calls nothing and leaves the registries, the reply
\* channels and the command channel as they were.
C33_CallbackDispatch ==
    [][(HandlerStep /\ rmsg.incmd = "callback") =>
          /\ rmsg.id \in callbacks => hdone' = "called"
          /\ rmsg.id \notin callbacks =>
                /\ hdone' = "nocallback"
                /\ UNCHANGED <<regs, chans, queue, poisoned>>
          /\ hdone \notin {"called", "nocallback"}]_vars

\* Witness for C33: the handler has called the callback registered under the
\* descriptor of the message.
C33_Witness ==
    /\ rmsg.incmd = "callback"
    /\ rmsg.id \in callbacks
    /\ hdone = "called"

\* A caller whose ComponentHandle::new is over, called by add_component or
\* by root_component.
HandleNewOver(t) ==
    /\ cur[t].op \in {"add_component", "root_component"}
    /\ pc[t] \notin {"ac_insert", "handle_new"}

C39_ResolveWithoutOwnLock ==
    \A t \in Threads : pc[t] = "handle_new" => wlock # t

\* C40: the invoke handler does not hold the write guard of the runtime lock
\* while a callback runs, so a callback that calls a runtime operation (eval,
\* set_attribute, a query) gets the lock and returns: the rendering thread is
\* never at the write() of a callback's operation while it is the writer.
C40_CallbackRunsUnlocked ==
    rpc = "cb_write" => wlock # R

\* A caller that holds a request id: new_request gave it one and its query
\* has not returned.
HoldsRequest(t) ==
    /\ cur[t].op = "query"
    /\ pc[t] \in {"q_eval_lock", "q_insert", "q_send", "q_evw_recv", "q_recv"}

C21_DisjointTrees ==
    [][/\ class'.html = class.html
       /\ html' # html => other'.html = other.html
       /\ other'.html # other.html => html' = html]_vars

\* Both instances are built, each from its own names, and one node of the
\* first was overwritten: the other instance and the class do not show it.
C21_Witness ==
    /\ phase = "built" /\ other.phase = "built"
    /\ html[2].id = "zap" /\ other.html[2].id = "lbl42"
    /\ placeholders["label"] = "label"
    /\ class.html = Template

\* C22: no step changes the class (name, tree, placeholders), a step that
\* changes the placeholders of one builder leaves those of the other builder
\* alone, and a builder that was just created has no placeholder assigned.
C22_BuildersIndependent ==
    [][/\ class' = class
       /\ placeholders' # placeholders =>
              other'.placeholders = other.placeholders
       /\ other'.placeholders # other.placeholders =>
              placeholders' = placeholders
       /\ (other' # other /\ other'.phase = "builder" /\ other.phase # "builder") =>
              /\ DOMAIN other'.placeholders = PlaceholderIds
              /\ \A p \in PlaceholderIds : other'.placeholders[p] = None]_vars

\* The first builder had names assigned, one of them generated, and was
\* built; the class and a builder fresh from it have no name assigned.
C22_Witness ==
    /\ other = NewForHandle(class)
    /\ placeholders["card"] \in GeneratedNames
    /\ placeholders["label"] = "lbl42"
    /\ placeholders["note"] = None
    /\ \A p \in PlaceholderIds : class.placeholders[p] = None
    /\ phase = "built"

\* ------------------------------------------------- properties of events
\* C30: when the last call on an event was set_callback, the call returned,
\* the event's callback_id is an id add_callback gave it and the only one of
\* its ids in the registry, and the script it sent sets onclick to the
\* dispatch text with that id.
C30_SetCallbackInstalls ==
    \A e \in Events : onclick[e].last = "set_callback" =>
        /\ onclick[e].out = "ok"
        /\ onclick[e].callback_id # <<>>
        /\ onclick[e].mine \cap callbacks = {onclick[e].callback_id[1]}
        /\ onclick[e].script.attr = "onclick"
        /\ onclick[e].script.value.text = "invoke"
        /\ onclick[e].script.value.descriptor = onclick[e].callback_id[1]
\* C31: no call of set_callback or remove_callback faults, an event is set
\* (callback_id is Some) exactly when its callback id is in the registry, and
\* so an event is unset after remove_callback; remove_callback on an unset
\* event returns None.
C31_RemoveLeavesUnset ==
    \A e \in Events :
        /\ onclick[e].out # "panic"
        /\ onclick[e].callback_id # <<>>
             <=> \E id \in callbacks : onclick[e].callback_id = <<id>>
        /\ onclick[e].last = "remove_callback" => onclick[e].callback_id = <<>>
\* C32: when the surface has run the text that set_callback installed, the
\* handler decoded its message as a callback message and called the callback
\* registered under the event's id.
C32_SnippetInvokesCallback ==
    \A e \in Events : onclick[e].last = "click" =>
        /\ onclick[e].out = "called"
        /\ onclick[e].script.value.descriptor \in callbacks
\* ------------------------------------------------ properties of load_all
\* C34: when load_all has returned, the vector has one image per item of
\* the iterator, and its k-th image is the image of the k-th item, in
\* whatever order the workers finished.
C34_LoadAllKeepsOrder ==
    loader.at = "returned" =>
        /\ Len(loader.vec) = Len(loader.items)
        /\ \A k \in DOMAIN loader.items :
             /\ loader.vec[k].format = loader.items[k].format
             /\ loader.vec[k].base64 =
                    (IF loader.items[k].bin = "M" THEN "TQ==" ELSE "YQ==")

\* Witness for C34: two different items, the worker of the second finished
\* first, and load_all has returned.
C34_Witness ==
    /\ loader.at = "returned"
    /\ loader.items = <<[bin |-> "M", format |-> "Png"],
                        [bin |-> "a", format |-> "Jpg"]>>
    /\ loader.finished = <<2, 1>>
    /\ Len(loader.vec) = 2
\* ------------------------------------------------ properties of the scripts
\* C35: in every script that carries a string payload (an attribute value,
\* appended markup, the markup of a nested component), each single or double
\* quote of the text between the script's quotes has a backslash right
\* before it.
C35_PayloadQuotesEscaped ==
    interp.op # "none" =>
        \A i \in DOMAIN interp.lit :
            interp.lit[i] \in Quotes => (i > 1 /\ interp.lit[i - 1] = "\\")

\* ----------------------------------------------- properties of the elements
\* C37: the element made for a node with the tag t (a, canvas, h4, h5, img,
\* li, p, span or a tag that is not known) reports as its tag_name() the
\* TagName of t.
C37_TagNameRoundTrip ==
    elem.at = "reported" => elem.reported = TagNameFrom(elem.tag)

====
